---- MODULE Spec2Model ----
(***************************************************************************)
(* Verification model of the Helium rewards ingestion pipeline:            *)
(*   - framedMessages          (length-prefixed frame decoder)             *)
(*   - listGzKeysInRange       (paged object listing, and the inline       *)
(*                              listing of the single-device scrapers)     *)
(*   - scrapeHeliumRewards / scrapePocRewards / run (the three scans)      *)
(*   - parseRewardsData        (daily aggregation)                         *)
(*   - topNFromTotals          (ranking of a window's totals)              *)
(*   - extractSubmessage / getPeriodFromFrame / parseRadioRewardV2         *)
(*                             (the wire readers, the hotspot identifier)  *)
(* Each component has its own specification (SpecFrame, SpecList,          *)
(* SpecScan, SpecParse, SpecTop, SpecWire, SpecKey); the variables of the  *)
(* other components stay at their idle values.                             *)
(***************************************************************************)
EXTENDS Integers, Sequences, FiniteSets, TLC

VARIABLES
    \* ---- framedMessages (generator state and its consumer) ----
    stream,        \* the logical byte sequence the transport will deliver
    fed,           \* number of bytes of stream delivered so far
    chunks,        \* number of chunks delivered so far
    buffer,        \* `buffer` of framedMessages
    frames,        \* frames yielded so far, in order
    messageCount,  \* the consumer's per-object messageCount
    fpc,           \* position: "read" | "loop" | "done" | "idle"
    \* ---- object listing (listGzKeysInRange, then the inline listing) ----
    bucket,        \* the keys under the prefix, in the order the store lists them
    pageSize,      \* number of keys the store returns per listing call
    startTs,       \* requested window, inclusive
    endTs,
    continuationToken, \* 0 models `undefined`
    keys,          \* listGzKeysInRange: {key, ts} pushed so far
    files,         \* inline listing: keys pushed so far
    listed,        \* what listGzKeysInRange returned
    targetDateFiles, \* what the inline listing computed
    lpc,           \* "gz" | "inline" | "done" | "failed" | "idle"
    \* ---- the scans: scrapeHeliumRewards, scrapePocRewards, run ----
    mode,          \* "dc" | "poc" | "fleet" | "idle"
    spc,           \* "list" | "fetch" | "frames" | "snapshot" | "done" | "failed" | "idle"
    listCalls,     \* listing calls answered so far
    scanFiles,     \* timestamps of the in-range objects, ascending
    fileIdx,       \* index of the object being processed
    framesSeen,    \* frames yielded in this scan (all objects)
    objMessages,   \* messageCount of the current object
    mobileRewards, \* scrapeHeliumRewards: entries pushed
    pocRewards,    \* scrapePocRewards: entries pushed
    totalsByWindow,\* run: per window, the Map device -> total in insertion order
    counters,      \* run: framesScanned, decodedOk, rewardsCounted, deviceKeysExtracted
    counted,       \* run: the messages counted so far (history)
    returned,      \* "none" | "result" | "error": how the scan function ended
    snapshot,      \* run: the row inserted into top_earners_snapshots, or <<>>
    objBase,       \* the aggregates when the current object was requested (history)
    lastFailure,   \* "none" | "list" | "fetch" | "gunzip" | "insert" (history)
    fetched,       \* indices of the objects a GetObject was sent for, in order (history)
    summary,       \* the summary a single-device scraper returned, or <<>>
    \* ---- parseRewardsData ----
    rewards,       \* scrapedData.rewards: the DC entries, in scan order
    pocInput,      \* pocData.pocRewards: the PoC entries, in scan order
    dcParsed,      \* DC entries already folded in
    pocParsed,     \* PoC entries already folded in
    dailyRewards,  \* the Map dateKey -> day record, as its values in insertion order
    dailyRewardsArray, \* the array returned as dailyRewards
    dailyBreakdown,\* the totals of the returned summary
    ppc,           \* "dc" | "poc" | "done" | "idle"
    \* ---- topNFromTotals and the ranking of run ----
    topTotals,     \* totalsMap: the entries of a window's Map, in insertion order
    topN,          \* n
    topArr,        \* what topNFromTotals returned
    topResult,     \* results[windowKey]
    tpc,           \* "top" | "rank" | "done" | "idle"
    \* ---- the wire readers: extractSubmessage, getPeriodFromFrame, parseRadioRewardV2 ----
    wFields,       \* the fields the payload was built from, in order
    wBytes,        \* the payload: the buffer given to the readers
    wFieldNo,      \* fieldNo given to extractSubmessage
    wExtract,      \* what extractSubmessage did
    wPeriod,       \* what getPeriodFromFrame did
    wRr2,          \* what parseRadioRewardV2 did
    wpc,           \* "extract" | "period" | "rr2" | "done" | "idle"
    \* ---- the hotspot identifier of parseRadioRewardV2 ----
    kBytes,        \* hotspotPayload: the raw key bytes
    kId,           \* hotspotId
    kIdAgain,      \* hotspotId of a second call on the same bytes
    kpc,           \* "derive" | "again" | "done" | "idle"
    \* ---- the target device formats and the device matching ----
    dPayload,      \* the device's key bytes
    dVersion,      \* the version byte of its checksummed form
    dKind,         \* how the key of the second scan is written
    dKey,          \* targetKey of each of two scans of the same device
    dFormats,      \* targetFormats of each scan
    dMsg,          \* the decoded message both scans come to
    dCand,         \* the cbsdId / hotspotId both scans come to
    dContains,     \* containsTargetDevice(message, targetFormats) of each scan
    dMatches,      \* matchesTargetDevice(candidate, targetFormats) of each scan
    dpc,           \* "frame" | "derive" | "dc" | "poc" | "done" | "failed" per scan, "idle"
    \* ---- runRewardsScrape and runBatchRewardsScrape ----
    deviceKeys,    \* the batch's device keys
    devIdx,        \* i of the batch loop, from 1
    scrapedData,   \* of the device being processed, Null while unset
    pocData,
    parsedData,
    upsertResult,
    stepLog,       \* the steps run for the device being processed, with outcomes
    batchResults,  \* results of the batch loop
    stepLogs,      \* stepLog of every device done
    delays,        \* the loop indexes after which the batch waited
    batchReturn,   \* what runBatchRewardsScrape returned
    rpc,           \* the position in the orchestrator, "idle"
    \* ---- upsertHeliumRewards and the tables it writes ----
    devicesTable,  \* devices: the device keys with a row
    rewardsTable,  \* helium_rewards_daily: the rows, a row's id being its place
    scrapeLog,     \* helium_rewards_scrape_log: the inserts attempted
    upsertInputs,  \* parsedData.dailyRewards of every call so far
    tableBefore,   \* rewardsTable when the call under way began
    dayIdx,        \* the place in dailyRewards of the loop
    insertedCount,
    updatedCount,
    errorCount,
    upsertReturns, \* what every call returned or threw
    upc,           \* the position in upsertHeliumRewards, "idle"
    \* ---- the tracked devices and their management ----
    trackedDevices, \* tracked_devices: per device key no row, an active or an inactive row
    deviceRows,     \* devices: the device keys with a row
    trackedBefore,  \* trackedDevices before the last operation
    lastOp,         \* the last operation and its device key
    lastAnswer      \* what it returned, threw or answered

frameVars == <<stream, fed, chunks, buffer, frames, messageCount, fpc>>
listVars  == <<bucket, pageSize, startTs, endTs, continuationToken, keys, files,
               listed, targetDateFiles, lpc>>

scanVars  == <<mode, spc, listCalls, scanFiles, fileIdx, framesSeen, objMessages,
               mobileRewards, pocRewards, totalsByWindow, counters, counted,
               returned, snapshot, objBase, lastFailure, fetched,
               summary>>

parseVars == <<rewards, pocInput, dcParsed, pocParsed, dailyRewards,
               dailyRewardsArray, dailyBreakdown, ppc>>

topVars == <<topTotals, topN, topArr, topResult, tpc>>

wireVars == <<wFields, wBytes, wFieldNo, wExtract, wPeriod, wRr2, wpc>>

keyVars == <<kBytes, kId, kIdAgain, kpc>>

devVars == <<dPayload, dVersion, dKind, dKey, dFormats, dMsg, dCand, dContains, dMatches, dpc>>

runVars == <<deviceKeys, devIdx, scrapedData, pocData, parsedData, upsertResult, stepLog, batchResults, stepLogs, delays, batchReturn, rpc>>

dbVars == <<devicesTable, rewardsTable, scrapeLog, upsertInputs, tableBefore, dayIdx, insertedCount, updatedCount, errorCount, upsertReturns, upc>>

trkVars == <<trackedDevices, deviceRows, trackedBefore, lastOp, lastAnswer>>

vars == <<frameVars, listVars, scanVars, parseVars, topVars, wireVars, keyVars, devVars, runVars, dbVars, trkVars>>

\* The variables of the components other than the named one.
notFrame == <<listVars, scanVars, parseVars, topVars, wireVars, keyVars, devVars, runVars, dbVars, trkVars>>
notList  == <<frameVars, scanVars, parseVars, topVars, wireVars, keyVars, devVars, runVars, dbVars, trkVars>>
notScan  == <<frameVars, listVars, parseVars, topVars, wireVars, keyVars, devVars, runVars, dbVars, trkVars>>
notParse == <<frameVars, listVars, scanVars, topVars, wireVars, keyVars, devVars, runVars, dbVars, trkVars>>
notTop == <<frameVars, listVars, scanVars, parseVars, wireVars, keyVars, devVars, runVars, dbVars, trkVars>>
notWire == <<frameVars, listVars, scanVars, parseVars, topVars, keyVars, devVars, runVars, dbVars, trkVars>>
notKey == <<frameVars, listVars, scanVars, parseVars, topVars, wireVars, devVars, runVars, dbVars, trkVars>>
notDev == <<frameVars, listVars, scanVars, parseVars, topVars, wireVars, keyVars, runVars, dbVars, trkVars>>
notRun == <<frameVars, listVars, scanVars, parseVars, topVars, wireVars, keyVars, devVars, dbVars, trkVars>>
notDb == <<frameVars, listVars, scanVars, parseVars, topVars, wireVars, keyVars, devVars, runVars, trkVars>>
notTrk == <<frameVars, listVars, scanVars, parseVars, topVars, wireVars, keyVars, devVars, runVars, dbVars>>

\* A component that takes no part in a specification stays idle.
TopIdle ==
    /\ topTotals = <<>> /\ topN = 0 /\ topArr = <<>> /\ topResult = <<>>
    /\ tpc = "idle"

WireIdle ==
    /\ wFields = <<>> /\ wBytes = <<>> /\ wFieldNo = 0
    /\ wExtract = <<>> /\ wPeriod = <<>> /\ wRr2 = <<>>
    /\ wpc = "idle"

KeyIdle ==
    /\ kBytes = <<>> /\ kId = <<>> /\ kIdAgain = <<>> /\ kpc = "idle"

DevIdle ==
    /\ dPayload = <<>> /\ dVersion = 0 /\ dKind = "idle" /\ dKey = <<>>
    /\ dFormats = <<>> /\ dMsg = <<>> /\ dCand = <<>> /\ dContains = <<>>
    /\ dMatches = <<>> /\ dpc = "idle"

RunIdle ==
    /\ deviceKeys = <<>> /\ devIdx = 0 /\ scrapedData = <<>> /\ pocData = <<>>
    /\ parsedData = <<>> /\ upsertResult = <<>> /\ stepLog = <<>>
    /\ batchResults = <<>> /\ stepLogs = <<>> /\ delays = <<>>
    /\ batchReturn = <<>> /\ rpc = "idle"

DbIdle ==
    /\ devicesTable = {} /\ rewardsTable = <<>> /\ scrapeLog = <<>>
    /\ upsertInputs = <<>> /\ tableBefore = <<>> /\ dayIdx = 0
    /\ insertedCount = 0 /\ updatedCount = 0 /\ errorCount = 0
    /\ upsertReturns = <<>> /\ upc = "idle"

TrkIdle ==
    /\ trackedDevices = <<>> /\ deviceRows = {} /\ trackedBefore = <<>>
    /\ lastOp = <<>> /\ lastAnswer = <<>>

FrameIdle ==
    /\ stream = <<>> /\ fed = 0 /\ chunks = 0 /\ buffer = <<>>
    /\ frames = <<>> /\ messageCount = 0 /\ fpc = "idle"

ParseIdle ==
    /\ rewards = <<>> /\ pocInput = <<>> /\ dcParsed = 0 /\ pocParsed = 0
    /\ dailyRewards = <<>> /\ dailyRewardsArray = <<>> /\ dailyBreakdown = <<>>
    /\ ppc = "idle"

ScanIdle ==
    /\ mode = "idle" /\ spc = "idle" /\ listCalls = 0 /\ scanFiles = <<>>
    /\ fileIdx = 0 /\ framesSeen = 0 /\ objMessages = 0
    /\ mobileRewards = <<>> /\ pocRewards = <<>>
    /\ totalsByWindow = <<>> /\ counters = <<>> /\ counted = <<>>
    /\ returned = "none" /\ snapshot = <<>> /\ objBase = <<>>
    /\ lastFailure = "none" /\ fetched = <<>> /\ summary = <<>>

ListIdle ==
    /\ bucket = <<>> /\ pageSize = 0 /\ startTs = 0 /\ endTs = 0
    /\ continuationToken = 0 /\ keys = <<>> /\ files = <<>>
    /\ listed = <<>> /\ targetDateFiles = <<>> /\ lpc = "idle"

-----------------------------------------------------------------------------
(***************************************************************************)
(* framedMessages                                                          *)
(***************************************************************************)

\* Longest byte stream fed to the decoder.
MaxStreamLen == 10

\* Byte values used in streams. 0 and 1 give the length prefixes 0, 1, 256,
\* 257, 65536, ...: empty frames, one-byte frames and prefixes that claim
\* more bytes than the stream ever supplies.
Bytes == {0, 1}

\* Width of the length prefix in bytes.
PrefixLen == 4

RECURSIVE SeqsUpTo(_, _)
SeqsUpTo(S, n) ==
    IF n = 0 THEN {<<>>}
    ELSE LET shorter == SeqsUpTo(S, n - 1)
         IN  shorter \cup {Append(s, x) : s \in {t \in shorter : Len(t) = n - 1}, x \in S}

Streams == SeqsUpTo(Bytes, MaxStreamLen)

Drop(s, n) == SubSeq(s, n + 1, Len(s))

\* buffer.readUInt32BE(0)
ReadUInt32BE(buf) ==
    buf[1] * 16777216 + buf[2] * 65536 + buf[3] * 256 + buf[4]

\* Buffer.concat([buffer, chunk]) -- mutant: the remainder of the previous
\* chunk is lost.
ConcatLosesRemainder(buf, chunk) == chunk

\* Buffer.concat([buffer, chunk])
Concat(buf, chunk) == buf \o chunk

\* the loop condition and the break test: a whole frame is buffered
FrameReady(buf) ==
    /\ Len(buf) >= PrefixLen
    /\ ~ (Len(buf) < PrefixLen + ReadUInt32BE(buf))

\* buffer.subarray(4, 4 + messageLength)
Message(buf) == SubSeq(buf, PrefixLen + 1, PrefixLen + ReadUInt32BE(buf))

\* buffer.subarray(4 + messageLength) -- mutant: the prefix is not skipped.
RestSkipsPayloadOnly(buf) == Drop(buf, ReadUInt32BE(buf))

\* buffer.subarray(4 + messageLength)
Rest(buf) == Drop(buf, PrefixLen + ReadUInt32BE(buf))

\* What the generator has yielded when the source stream ends -- mutant: the
\* bytes left in the buffer are flushed as a last frame.
AtEndFlushesPartial(yielded, buf) ==
    IF buf = <<>> THEN yielded ELSE Append(yielded, buf)

\* What the generator has yielded when the source stream ends: the for-await
\* loop is left and the function returns; the buffer is discarded.
AtEnd(yielded, buf) == yielded

\* framedMessages applied to a stream delivered as one single chunk.
RECURSIVE DrainWhole(_)
DrainWhole(buf) ==
    IF FrameReady(buf) THEN <<Message(buf)>> \o DrainWhole(Rest(buf)) ELSE <<>>

FramedWhole(s) == AtEnd(DrainWhole(Concat(<<>>, s)), <<>>)

\* The bytes of a frame sequence as they appear in a stream.
BE32(n) == << (n \div 16777216) % 256, (n \div 65536) % 256, (n \div 256) % 256, n % 256 >>

RECURSIVE Encode(_)
Encode(fs) ==
    IF fs = <<>> THEN <<>>
    ELSE BE32(Len(Head(fs))) \o Head(fs) \o Encode(Tail(fs))

FrameInit ==
    /\ stream \in Streams
    /\ fed = 0 /\ chunks = 0
    /\ buffer = <<>>
    /\ frames = <<>>
    /\ messageCount = 0
    /\ fpc = "read"
    /\ ListIdle /\ ScanIdle /\ ParseIdle /\ TopIdle /\ WireIdle /\ KeyIdle /\ DevIdle /\ RunIdle /\ DbIdle /\ TrkIdle

\* for await (const chunk of stream) { buffer = Buffer.concat([buffer, chunk]);
Chunk ==
    /\ fpc = "read"
    /\ \E n \in 1..(Len(stream) - fed) :
          /\ buffer' = Concat(buffer, SubSeq(stream, fed + 1, fed + n))
          /\ fed' = fed + n
    /\ chunks' = chunks + 1
    /\ fpc' = "loop"
    /\ UNCHANGED <<stream, frames, messageCount>>
    /\ UNCHANGED notFrame

\* while (buffer.length >= 4) { ...; yield message; buffer = buffer.subarray(..) }
\* together with the consumer's messageCount++ for the yielded frame.
Yield ==
    /\ fpc = "loop"
    /\ FrameReady(buffer)
    /\ frames' = Append(frames, Message(buffer))
    /\ messageCount' = messageCount + 1
    /\ buffer' = Rest(buffer)
    /\ UNCHANGED <<stream, fed, chunks, fpc>>
    /\ UNCHANGED notFrame

\* the while loop ends (fewer than 4 bytes) or breaks (frame incomplete)
AwaitMore ==
    /\ fpc = "loop"
    /\ ~ FrameReady(buffer)
    /\ fpc' = "read"
    /\ UNCHANGED <<stream, fed, chunks, buffer, frames, messageCount>>
    /\ UNCHANGED notFrame

\* the source stream ends: the for-await loop is left, the generator returns
EndOfStream ==
    /\ fpc = "read"
    /\ fed = Len(stream)
    /\ frames' = AtEnd(frames, buffer)
    /\ fpc' = "done"
    /\ UNCHANGED <<stream, fed, chunks, buffer, messageCount>>
    /\ UNCHANGED notFrame

\* The trailing bytes of a stream that do not make up a whole frame.
RECURSIVE TrailingPartial(_)
TrailingPartial(s) == IF FrameReady(s) THEN TrailingPartial(Rest(s)) ELSE s

\* C1: chunk-boundary independence. Whenever the decoder has drained what it
\* was given (and at the end of the stream), the frames yielded for the bytes
\* delivered so far, however they were cut into chunks (one byte per chunk
\* included), are those yielded when the same bytes arrive as one chunk.
C1_ChunkIndependence ==
    fpc \in {"read", "done"} => frames = FramedWhole(SubSeq(stream, 1, fed))

\* two one-byte frames delivered one byte per chunk
C1_Witness ==
    /\ fpc = "done" /\ chunks = Len(stream) /\ Len(frames) = 2
    /\ \A i \in 1..2 : Len(frames[i]) = 1

\* C2: a frame is yielded only when the buffer holds 4+L bytes, L being the
\* big-endian value of its first 4 bytes; the frame is the L bytes after the
\* prefix and the buffer advances by 4+L. Hence the frames yielded, each
\* behind its prefix, followed by the buffer, are exactly the bytes delivered:
\* frames come in stream order, share no byte and skip none.
C2_FrameBoundariesExact ==
    /\ [](Encode(frames) \o buffer = SubSeq(stream, 1, fed))
    /\ [][frames' # frames =>
            LET L == buffer[1] * 16777216 + buffer[2] * 65536 + buffer[3] * 256 + buffer[4]
            IN  /\ Len(buffer) >= 4
                /\ Len(buffer) >= 4 + L
                /\ frames' = Append(frames, SubSeq(buffer, 5, 4 + L))
                /\ buffer' = SubSeq(buffer, 4 + L + 1, Len(buffer))]_vars

\* an empty frame, then a one-byte frame, with bytes of a third one buffered
C2_Witness ==
    /\ Len(frames) = 2 /\ frames[1] = <<>> /\ Len(frames[2]) = 1
    /\ buffer # <<>> /\ chunks >= 2

\* C3: at the end of the stream the trailing partial frame (fewer than 4
\* prefix bytes, or fewer than 4+L bytes) is dropped, the decoder finishes
\* normally, and the frames yielded and the message count are those of the
\* stream without that trailing partial.
C3_TrailingPartialDropped ==
    fpc = "done" =>
        LET partial == TrailingPartial(stream)
            whole   == SubSeq(stream, 1, Len(stream) - Len(partial))
        IN  /\ buffer = partial
            /\ frames = FramedWhole(whole)
            /\ messageCount = Len(FramedWhole(whole))

\* one frame was yielded; the next prefix claims a byte that never arrives
C3_Witness ==
    /\ fpc = "done" /\ Len(frames) = 1 /\ messageCount = 1
    /\ Len(buffer) = 4 /\ ReadUInt32BE(buffer) = 1

-----------------------------------------------------------------------------
(***************************************************************************)
(* Object listing: listGzKeysInRange and the scrapers' inline listing      *)
(***************************************************************************)

\* Most keys under the prefix.
MaxKeys == 3

\* Largest number of keys the store returns per call.
MaxPage == 2

\* Number of digits of the timestamp embedded in a key.
TsDigits == 13

Digits == {"0", "1", "2", "3", "4", "5", "6", "7", "8", "9"}

DigitVal(c) ==
    CASE c = "0" -> 0 [] c = "1" -> 1 [] c = "2" -> 2 [] c = "3" -> 3
      [] c = "4" -> 4 [] c = "5" -> 5 [] c = "6" -> 6 [] c = "7" -> 7
      [] c = "8" -> 8 [] c = "9" -> 9

\* A key is the sequence of its characters. Timestamps are written with
\* leading zeros so that their values fit the model checker's integers.
ZerosThen(n, tail) == [i \in 1..n |-> "0"] \o tail

KeyA100   == <<"a", ".">> \o ZerosThen(10, <<"1", "0", "0">>) \o <<".", "g", "z">>
KeyB200   == <<"b", ".">> \o ZerosThen(10, <<"2", "0", "0">>) \o <<".", "g", "z">>
KeyC200   == <<"c", ".">> \o ZerosThen(10, <<"2", "0", "0">>) \o <<".", "g", "z">>
KeyD300   == <<"d", ".">> \o ZerosThen(10, <<"3", "0", "0">>) \o <<".", "g", "z">>
\* 12 and 14 digits: no 13-digit timestamp directly between "." and ".gz"
KeyShort  == <<"e", ".">> \o ZerosThen(9, <<"2", "0", "0">>) \o <<".", "g", "z">>
KeyLong   == <<"f", ".">> \o ZerosThen(11, <<"2", "0", "0">>) \o <<".", "g", "z">>
\* a timestamp, but not a .gz object
KeyNotGz  == <<"g", ".">> \o ZerosThen(10, <<"2", "0", "0">>) \o <<".", "g", "z", ".", "t">>
\* a .gz object without a timestamp
KeyNoTs   == <<"h", ".", "g", "z">>

KeyPool == {KeyA100, KeyB200, KeyC200, KeyD300, KeyShort, KeyLong, KeyNotGz, KeyNoTs}

\* The requested windows [startTs, endTs].
Windows == {<<0, 250>>, <<200, 300>>, <<101, 299>>}

RECURSIVE DistinctSeqs(_, _)
DistinctSeqs(S, n) ==
    IF n = 0 THEN {<<>>}
    ELSE LET shorter == DistinctSeqs(S, n - 1)
             longest == {t \in shorter : Len(t) = n - 1}
         IN  shorter \cup
             UNION {{Append(s, x) : x \in S \ {s[i] : i \in 1..Len(s)}} : s \in longest}

\* key.endsWith(".gz")
EndsWithGz(key) ==
    /\ Len(key) >= 3
    /\ SubSeq(key, Len(key) - 2, Len(key)) = <<".", "g", "z">>

\* key.match(/\.(\d{13})\.gz$/): the captured digits, or <<>> for no match
MatchTs(key) ==
    LET n == Len(key)
    IN  IF /\ n >= TsDigits + 4
           /\ EndsWithGz(key)
           /\ key[n - 3 - TsDigits] = "."
           /\ \A i \in (n - 2 - TsDigits)..(n - 3) : key[i] \in Digits
        THEN SubSeq(key, n - 2 - TsDigits, n - 3)
        ELSE <<>>

\* parseInt(m[1], 10)
RECURSIVE ParseInt(_)
ParseInt(ds) ==
    IF ds = <<>> THEN 0
    ELSE 10 * ParseInt(SubSeq(ds, 1, Len(ds) - 1)) + DigitVal(ds[Len(ds)])

\* const ts = m ? parseInt(m[1], 10) : 0
KeyTs(key) == IF MatchTs(key) # <<>> THEN ParseInt(MatchTs(key)) ELSE 0

\* ts >= startTs && ts <= endTs -- mutant: the end of the window is excluded.
InRangeExclusiveEnd(ts, lo, hi) == ts >= lo /\ ts < hi

\* ts >= startTs && ts <= endTs
InRange(ts, lo, hi) == ts >= lo /\ ts <= hi

\* Array.prototype.sort((a, b) => a.ts - b.ts): a stable sort by ts.
\* Insert(sorted, x) puts x behind every element that is not greater.
RECURSIVE InsertByTs(_, _)
InsertByTs(sorted, x) ==
    IF sorted = <<>> THEN <<x>>
    ELSE IF Head(sorted).ts > x.ts THEN <<x>> \o sorted
         ELSE <<Head(sorted)>> \o InsertByTs(Tail(sorted), x)

RECURSIVE SortByTs(_)
SortByTs(s) ==
    IF s = <<>> THEN <<>>
    ELSE InsertByTs(SortByTs(SubSeq(s, 1, Len(s) - 1)), s[Len(s)])

\* The store's answer to ListObjectsV2 with the given continuation token:
\* the next pageSize keys, whether more remain, and the token for them.
ListObjectsV2(token) ==
    LET first == IF token = 0 THEN 1 ELSE token
        last  == IF first + pageSize - 1 < Len(bucket) THEN first + pageSize - 1
                 ELSE Len(bucket)
    IN  [Contents              |-> SubSeq(bucket, first, last),
         IsTruncated           |-> last < Len(bucket),
         NextContinuationToken |-> IF last < Len(bucket) THEN last + 1 ELSE 0]

\* if (!resp.IsTruncated || !resp.NextContinuationToken) break;
LastPage(resp) == ~ resp.IsTruncated \/ resp.NextContinuationToken = 0

\* for (const obj of contents) { ...; if (ts in range) keys.push({ key, ts }) }
RECURSIVE PushKeysInRange(_, _)
PushKeysInRange(acc, contents) ==
    IF contents = <<>> THEN acc
    ELSE LET key == Head(contents)
             ts  == KeyTs(key)
             nxt == IF EndsWithGz(key) /\ InRange(ts, startTs, endTs)
                    THEN Append(acc, [key |-> key, ts |-> ts])
                    ELSE acc
         IN  PushKeysInRange(nxt, Tail(contents))

\* for (const obj of contents) { if (key.endsWith('.gz')) files.push(key) }
PushGzFiles(acc, contents) == acc \o SelectSeq(contents, EndsWithGz)

\* files.map(file => ({file, timestamp})).filter(in range).sort(by timestamp)
InRangeItem(item) == InRange(item.ts, startTs, endTs)

TargetDateFiles(fs) ==
    SortByTs(SelectSeq([i \in 1..Len(fs) |-> [key |-> fs[i], ts |-> KeyTs(fs[i])]],
                       InRangeItem))

ListInit ==
    /\ bucket \in DistinctSeqs(KeyPool, MaxKeys)
    /\ pageSize \in 1..MaxPage
    /\ \E w \in Windows : startTs = w[1] /\ endTs = w[2]
    /\ continuationToken = 0
    /\ keys = <<>> /\ files = <<>>
    /\ listed = <<>> /\ targetDateFiles = <<>>
    /\ lpc = "gz"
    /\ FrameIdle /\ ScanIdle /\ ParseIdle /\ TopIdle /\ WireIdle /\ KeyIdle /\ DevIdle /\ RunIdle /\ DbIdle /\ TrkIdle

\* listGzKeysInRange: one turn of the while (true) loop that is not the last
GzListPage ==
    /\ lpc = "gz"
    /\ LET resp == ListObjectsV2(continuationToken)
       IN  /\ ~ LastPage(resp)
           /\ keys' = PushKeysInRange(keys, resp.Contents)
           /\ continuationToken' = resp.NextContinuationToken
    /\ UNCHANGED <<bucket, pageSize, startTs, endTs, files, listed, targetDateFiles, lpc>>
    /\ UNCHANGED notList

\* listGzKeysInRange: the last turn of the loop, the sort and the return
GzListLastPage ==
    /\ lpc = "gz"
    /\ LET resp == ListObjectsV2(continuationToken)
       IN  /\ LastPage(resp)
           /\ keys' = SortByTs(PushKeysInRange(keys, resp.Contents))
           /\ listed' = keys'
    /\ continuationToken' = 0
    /\ lpc' = "inline"
    /\ UNCHANGED <<bucket, pageSize, startTs, endTs, files, targetDateFiles>>
    /\ UNCHANGED notList

\* inline listing: one turn of the while (true) loop that is not the last
InlineListPage ==
    /\ lpc = "inline"
    /\ LET resp == ListObjectsV2(continuationToken)
       IN  /\ ~ LastPage(resp)
           /\ files' = PushGzFiles(files, resp.Contents)
           /\ continuationToken' = resp.NextContinuationToken
    /\ UNCHANGED <<bucket, pageSize, startTs, endTs, keys, listed, targetDateFiles, lpc>>
    /\ UNCHANGED notList

\* inline listing: the last turn of the loop, then map, filter and sort
InlineListLastPage ==
    /\ lpc = "inline"
    /\ LET resp == ListObjectsV2(continuationToken)
       IN  /\ LastPage(resp)
           /\ files' = PushGzFiles(files, resp.Contents)
           /\ targetDateFiles' = TargetDateFiles(files')
    /\ continuationToken' = 0
    /\ lpc' = "done"
    /\ UNCHANGED <<bucket, pageSize, startTs, endTs, keys, listed>>
    /\ UNCHANGED notList

\* s3.send rejects: neither listing catches it, the error reaches the caller
ListCallFails ==
    /\ lpc \in {"gz", "inline"}
    /\ lpc' = "failed"
    /\ UNCHANGED <<bucket, pageSize, startTs, endTs, continuationToken, keys, files,
                   listed, targetDateFiles>>
    /\ UNCHANGED notList

ListNext ==
    \/ GzListPage \/ GzListLastPage
    \/ InlineListPage \/ InlineListLastPage
    \/ ListCallFails


\* What the keys of the pool were built to be: the timestamp each carries
\* directly before ".gz" (0 when it carries none) and whether it is a .gz key.
Stamp(key) ==
    CASE key = KeyA100 -> 100
      [] key = KeyB200 -> 200
      [] key = KeyC200 -> 200
      [] key = KeyD300 -> 300
      [] OTHER -> 0

IsGzObject(key) == key # KeyNotGz

\* C4: listGzKeysInRange follows the continuation tokens through every page
\* and returns exactly the listed keys that end in ".gz" and whose 13-digit
\* timestamp before ".gz" (0 without one) lies in [startTs, endTs], ascending
\* by timestamp; the inline listing of the single-device scrapers computes
\* the same keys in the same order.
C4_ListingExact ==
    /\ lpc \in {"inline", "done"} =>
          LET wanted == {k \in {bucket[i] : i \in 1..Len(bucket)} :
                            /\ IsGzObject(k)
                            /\ startTs <= Stamp(k) /\ Stamp(k) <= endTs}
          IN  /\ {listed[i].key : i \in 1..Len(listed)} = wanted
              /\ Len(listed) = Cardinality(wanted)
              /\ \A i \in 1..Len(listed) : listed[i].ts = Stamp(listed[i].key)
              /\ \A i, j \in 1..Len(listed) : i < j => listed[i].ts <= listed[j].ts
    /\ lpc = "done" => targetDateFiles = listed

\* three pages of one key each, listed out of timestamp order, one key
\* without a timestamp inside a window that starts at 0
C4_Witness ==
    /\ lpc = "done" /\ pageSize = 1
    /\ bucket = <<KeyB200, KeyNoTs, KeyA100>>
    /\ startTs = 0 /\ endTs = 250
    /\ Len(listed) = 3 /\ Len(targetDateFiles) = 3

-----------------------------------------------------------------------------
(***************************************************************************)
(* The scans: scrapeHeliumRewards ("dc"), scrapePocRewards ("poc") and the *)
(* fleet scan run ("fleet")                                                *)
(***************************************************************************)

\* Most in-range objects of a scan.
MaxFiles == 2

\* Most frames yielded during one scan, all objects together.
MaxScanFrames == 3

\* Most listing calls that answer before the last one.
MaxListCalls == 1

\* 24 * 60 * 60 * 1000
MsPerDay == 86400000

WINDOWS_DAYS == <<1, 7, 30>>

TOP_N == 10

\* WINDOWS_DAYS is sorted ascending; the lookback is its largest window
LOOKBACK_DAYS == WINDOWS_DAYS[Len(WINDOWS_DAYS)]

\* `endDate.getTime()` of the fleet scan: 24 days after the epoch, the latest
\* whole day whose millisecond count fits the model checker's integers.
ScanEndTs == 24 * MsPerDay

\* endTs - d * 24 * 60 * 60 * 1000 -- mutant: the cutoff itself is left out
\* of the window.
CutoffExclusive(d) == (ScanEndTs - d * (MsPerDay \div 2)) - d * (MsPerDay \div 2) + 1

\* endTs - d * 24 * 60 * 60 * 1000, subtracted in two halves because the
\* product for d = 30 exceeds the model checker's integers.
Cutoff(d) == (ScanEndTs - d * (MsPerDay \div 2)) - d * (MsPerDay \div 2)

\* Object timestamps: inside the 30-day window only, exactly on the 7-day
\* cutoff, exactly on the 1-day cutoff.
FileTimes == {16 * MsPerDay + 5, 17 * MsPerDay, 23 * MsPerDay}

\* With them an object a day older than the fleet scan's lookback: in the
\* bucket, before startTs.
ObjectTimes == FileTimes \cup {Cutoff(LOOKBACK_DAYS) - MsPerDay}

\* The timestamps a scan's listing can give.  run lists with
\* listGzKeysInRange(s3, PREFIX, startTs, endTs), startTs being endTs minus
\* LOOKBACK_DAYS days; the single-device scrapers list their requested range,
\* which the timestamps of FileTimes are in.
ListedTimes(m) ==
    IF m = "fleet"
    THEN {ts \in ObjectTimes : InRange(ts, Cutoff(LOOKBACK_DAYS), ScanEndTs)}
    ELSE FileTimes

RECURSIVE AscendingSeqs(_, _)
AscendingSeqs(S, n) ==
    IF n = 0 THEN {<<>>}
    ELSE LET shorter == AscendingSeqs(S, n - 1)
             longest == {t \in shorter : Len(t) = n - 1}
         IN  shorter \cup
             UNION {{Append(t, x) : x \in {y \in S : t = <<>> \/ t[Len(t)] <= y}} :
                    t \in longest}

\* A 64-bit protobuf integer as the decoder presents it: a Long with signed
\* 32-bit halves `high` and `low`. `present` is false when the field (or the
\* gatewayReward around it) is not in the message.
Long(h, l) == [present |-> TRUE, high |-> h, low |-> l]
NoLong     == [present |-> FALSE, high |-> 0, low |-> 0]

\* A frame, by what decoding it gives:
\*   ok     the mode's decoding of the frame does not throw
\*   dev    the device the message is about: "target", "other", or "none"
\*          when the message carries no device bytes
\*   dc     gatewayReward.dcTransferReward
\*   rr2    the frame has a radio_reward_v2 sub-message (outer field 8)
\*   base, boost   its base and boosted PoC
Frame(id, ok, dev, dc, rr2, base, boost) ==
    [id |-> id, ok |-> ok, dev |-> dev, dc |-> dc, rr2 |-> rr2,
     base |-> base, boost |-> boost]

FramePool ==
    { Frame("garbled",  FALSE, "target", Long(0, 5), TRUE, 3, 1),
      Frame("t5",       TRUE,  "target", Long(0, 5), TRUE, 3, 1),
      Frame("tZero",    TRUE,  "target", Long(0, 0), TRUE, 0, 0),
      Frame("tAbsent",  TRUE,  "target", NoLong, FALSE, 0, 0),
      \* 2^32 + 5
      Frame("tBig",     TRUE,  "target", Long(1, 5), FALSE, 0, 0),
      \* 2^32 - 1: the low half has its sign bit set
      Frame("tHighBit", TRUE,  "target", Long(0, -1), FALSE, 0, 0),
      Frame("o7",       TRUE,  "other",  Long(0, 7), TRUE, 4, 4),
      Frame("n9",       TRUE,  "none",   Long(0, 9), FALSE, 0, 0) }

\* The fleet scan turns the Long into a number with parseInt(toString()); the
\* frames given to it are those whose value fits the model checker's integers.
FleetFramePool == {f \in FramePool : f.dc.high = 0 /\ f.dc.low >= 0}

FramesFor(m) == IF m = "fleet" THEN FleetFramePool ELSE FramePool

\* MobileRewardShare.decode(frame) throws, or the wire readers throw --
\* mutant: the failure is not noticed and the frame is used as decoded.
DecodeFailsUnnoticed(f) == FALSE

\* MobileRewardShare.decode(frame) throws, or the wire readers throw
DecodeFails(f) == ~ f.ok

\* containsTargetDevice(decoded, targetFormats)
ContainsTargetDevice(f) == f.dev = "target"

\* matchesTargetDevice(cbsdId, targetFormats) || matchesTargetDevice(hotspotId, ..)
IsTargetDevice(f) == f.dev = "target"

\* decoded.gatewayReward?.dcTransferReward?.low || 0
RewardAmount(f) == IF f.dc.present /\ f.dc.low # 0 THEN f.dc.low ELSE 0

\* dcTransfer ? parseInt(dcTransfer.toString(), 10) : 0
DcNumber(f) == IF f.dc.present THEN f.dc.low ELSE 0

\* deviceKeyStringFromDecoded(decoded): null without device bytes
DeviceKey(f) == IF f.dev = "none" THEN "null" ELSE f.dev

\* scrapeHeliumRewards: the body of the frame loop
DcFrame(list, ts, f) ==
    IF DecodeFails(f) THEN list
    ELSE IF ContainsTargetDevice(f)
         THEN Append(list, [ts |-> ts, msg |-> f.id, rewardAmount |-> RewardAmount(f)])
         ELSE list

\* scrapePocRewards: the body of the frame loop
PocFrame(list, ts, f) ==
    IF DecodeFails(f) THEN list
    ELSE IF f.rr2 /\ IsTargetDevice(f)
         THEN Append(list, [ts |-> ts, msg |-> f.id, basePoc |-> f.base,
                            boostedPoc |-> f.boost, totalPoc |-> f.base + f.boost])
         ELSE list

\* run: does the frame reach rewardsCounted++ ?
FleetCounts(f) == ~ DecodeFails(f) /\ DcNumber(f) # 0 /\ DeviceKey(f) # "null"

\* m.set(deviceKey, (m.get(deviceKey) || 0) + dc) on a Map kept as the
\* sequence of its entries in insertion order
MapAdd(map, dev, dc) ==
    IF \E i \in 1..Len(map) : map[i].device = dev
    THEN [i \in 1..Len(map) |->
            IF map[i].device = dev
            THEN [device |-> dev, total |-> map[i].total + dc]
            ELSE map[i]]
    ELSE Append(map, [device |-> dev, total |-> dc])

\* for (const windowDays of WINDOWS_DAYS) { .. } -- mutant: the comparison is
\* turned round, objects after the cutoff are skipped.
FleetTotalsSkipsRecent(totals, ts, f) ==
    [w \in 1..Len(WINDOWS_DAYS) |->
        IF ts > Cutoff(WINDOWS_DAYS[w]) THEN totals[w]
        ELSE MapAdd(totals[w], DeviceKey(f), DcNumber(f))]

\* for (const windowDays of WINDOWS_DAYS) { if (ts < cutoff) continue; ... }
FleetTotals(totals, ts, f) ==
    [w \in 1..Len(WINDOWS_DAYS) |->
        IF ts < Cutoff(WINDOWS_DAYS[w]) THEN totals[w]
        ELSE MapAdd(totals[w], DeviceKey(f), DcNumber(f))]

\* run: the counters after one frame -- mutant: deviceKeysExtracted++ comes
\* before the device key is looked at.
FleetCountersKeyUnchecked(c, f) ==
    [framesScanned       |-> c.framesScanned + 1,
     decodedOk           |-> c.decodedOk + (IF DecodeFails(f) THEN 0 ELSE 1),
     rewardsCounted      |-> c.rewardsCounted + (IF FleetCounts(f) THEN 1 ELSE 0),
     deviceKeysExtracted |-> c.deviceKeysExtracted
                                + (IF ~ DecodeFails(f) /\ DcNumber(f) # 0 THEN 1 ELSE 0)]

\* run: the counters after one frame
FleetCounters(c, f) ==
    [framesScanned       |-> c.framesScanned + 1,
     decodedOk           |-> c.decodedOk + (IF DecodeFails(f) THEN 0 ELSE 1),
     rewardsCounted      |-> c.rewardsCounted + (IF FleetCounts(f) THEN 1 ELSE 0),
     deviceKeysExtracted |-> c.deviceKeysExtracted + (IF FleetCounts(f) THEN 1 ELSE 0)]

\* arr.sort((a, b) => b[1] - a[1]) -- mutant: an entry goes before the
\* entries of the same total that came earlier.
RECURSIVE InsertByTotalTiesFirst(_, _)
InsertByTotalTiesFirst(sorted, x) ==
    IF sorted = <<>> THEN <<x>>
    ELSE IF Head(sorted).total <= x.total THEN <<x>> \o sorted
         ELSE <<Head(sorted)>> \o InsertByTotalTiesFirst(Tail(sorted), x)

\* arr.sort((a, b) => b[1] - a[1]): stable, descending by total
RECURSIVE InsertByTotal(_, _)
InsertByTotal(sorted, x) ==
    IF sorted = <<>> THEN <<x>>
    ELSE IF Head(sorted).total < x.total THEN <<x>> \o sorted
         ELSE <<Head(sorted)>> \o InsertByTotal(Tail(sorted), x)

RECURSIVE SortByTotalDesc(_)
SortByTotalDesc(s) ==
    IF s = <<>> THEN <<>>
    ELSE InsertByTotal(SortByTotalDesc(SubSeq(s, 1, Len(s) - 1)), s[Len(s)])

\* topNFromTotals(totalsMap, n)
TopNFromTotals(totalsMap, n) ==
    LET arr == SortByTotalDesc(totalsMap)
    IN  SubSeq(arr, 1, IF Len(arr) < n THEN Len(arr) ELSE n)

\* top.map(([device_key, total_dc], idx) => ({ rank: idx + 1, ... }))
RankTop(top) ==
    [i \in 1..Len(top) |->
        [rank |-> i, device_key |-> top[i].device, total_dc |-> top[i].total]]

\* run: results[windowKey], for every window
FleetResults(totals) ==
    [w \in 1..Len(WINDOWS_DAYS) |-> RankTop(TopNFromTotals(totals[w], TOP_N))]

\* list.reduce((sum, reward) => sum + reward[field], 0)
RECURSIVE ReduceField(_, _)
ReduceField(list, field) ==
    IF list = <<>> THEN 0
    ELSE ReduceField(SubSeq(list, 1, Len(list) - 1), field) + list[Len(list)][field]

\* The summary returned by scrapeHeliumRewards ("dc") and scrapePocRewards
\* ("poc"), without filesProcessed (the count of all .gz keys under the
\* prefix, in range or not), dateRange and averageDaily.
ScanSummary(m, dcList, pocList, inRange) ==
    IF m = "dc"
    THEN [totalRewards |-> ReduceField(dcList, "rewardAmount"),
          rewardCount  |-> Len(dcList),
          filesInRange |-> inRange]
    ELSE [totalBasePoc    |-> ReduceField(pocList, "basePoc"),
          totalBoostedPoc |-> ReduceField(pocList, "boostedPoc"),
          totalPoc        |-> ReduceField(pocList, "totalPoc"),
          rewardCount     |-> Len(pocList),
          filesInRange    |-> inRange]

\* What the rewards of a scan are made of.
Aggregates == <<mobileRewards, pocRewards, totalsByWindow, counted>>

\* How a scan ends when a listing call rejects -- mutant: the error is
\* swallowed and the scan returns an empty result.
ListErrorSwallowed(m) == [spc |-> "done", returned |-> "result"]

\* How a scan ends when a listing call rejects: scrapeHeliumRewards and
\* scrapePocRewards log and rethrow; in run nothing catches it.
OnListError(m) == [spc |-> "failed", returned |-> "error"]

\* Does an error thrown while an object is fetched or read end the scan?
\* The single-device scrapers catch it per object; run does not.
ObjectErrorEndsScan(m) == m = "fleet"

ScanInit ==
    /\ mode \in {"dc", "poc", "fleet"}
    /\ spc = "list"
    /\ listCalls = 0
    /\ scanFiles = <<>>
    /\ fileIdx = 0 /\ framesSeen = 0 /\ objMessages = 0
    /\ mobileRewards = <<>> /\ pocRewards = <<>>
    /\ totalsByWindow = [w \in 1..Len(WINDOWS_DAYS) |-> <<>>]
    /\ counters = [framesScanned |-> 0, decodedOk |-> 0, rewardsCounted |-> 0,
                   deviceKeysExtracted |-> 0]
    /\ counted = <<>>
    /\ returned = "none" /\ snapshot = <<>>
    /\ objBase = <<>>
    /\ lastFailure = "none"
    /\ fetched = <<>>
    /\ summary = <<>>
    /\ FrameIdle /\ ListIdle /\ ParseIdle /\ TopIdle /\ WireIdle /\ KeyIdle /\ DevIdle /\ RunIdle /\ DbIdle /\ TrkIdle

\* a listing call answers with a continuation token
ScanListPage ==
    /\ spc = "list"
    /\ listCalls < MaxListCalls
    /\ listCalls' = listCalls + 1
    /\ UNCHANGED <<mode, spc, scanFiles, fileIdx, framesSeen, objMessages, mobileRewards,
                   pocRewards, totalsByWindow, counters, counted, returned, snapshot,
                   objBase, lastFailure>>
    /\ UNCHANGED fetched
    /\ UNCHANGED summary
    /\ UNCHANGED notScan

\* the last listing call answers; the in-range objects are known, ascending.
\* The single-device scrapers return at once when there is none.
ScanListDone ==
    /\ spc = "list"
    /\ \E fs \in AscendingSeqs(ListedTimes(mode), MaxFiles) :
          /\ scanFiles' = fs
          /\ IF fs = <<>> /\ mode \in {"dc", "poc"}
             THEN /\ spc' = "done" /\ returned' = "result" /\ fileIdx' = 0
                  /\ summary' = ScanSummary(mode, <<>>, <<>>, 0)
             ELSE /\ spc' = "fetch" /\ returned' = returned /\ fileIdx' = 1
                  /\ summary' = summary
    /\ listCalls' = listCalls + 1
    /\ UNCHANGED <<mode, framesSeen, objMessages, mobileRewards, pocRewards,
                   totalsByWindow, counters, counted, snapshot, objBase, lastFailure>>
    /\ UNCHANGED fetched
    /\ UNCHANGED notScan

\* a listing call rejects
ScanListFails ==
    /\ spc = "list"
    /\ spc' = OnListError(mode).spc
    /\ returned' = OnListError(mode).returned
    /\ lastFailure' = "list"
    /\ UNCHANGED <<mode, listCalls, scanFiles, fileIdx, framesSeen, objMessages,
                   mobileRewards, pocRewards, totalsByWindow, counters, counted,
                   snapshot, objBase>>
    /\ UNCHANGED fetched
    /\ UNCHANGED summary
    /\ UNCHANGED notScan

\* s3.send(new GetObjectCommand(..)) answers with a body; it is piped to gunzip
FetchObject ==
    /\ spc = "fetch"
    /\ fileIdx <= Len(scanFiles)
    /\ spc' = "frames"
    /\ objMessages' = 0
    /\ objBase' = Aggregates
    /\ lastFailure' = "none"
    /\ UNCHANGED <<mode, listCalls, scanFiles, fileIdx, framesSeen, mobileRewards,
                   pocRewards, totalsByWindow, counters, counted, returned, snapshot>>
    /\ fetched' = Append(fetched, fileIdx)
    /\ UNCHANGED summary
    /\ UNCHANGED notScan

\* if (!get.Body) continue;
FetchNoBody ==
    /\ spc = "fetch"
    /\ fileIdx <= Len(scanFiles)
    /\ fileIdx' = fileIdx + 1
    /\ objBase' = Aggregates
    /\ lastFailure' = "none"
    /\ UNCHANGED <<mode, spc, listCalls, scanFiles, framesSeen, objMessages,
                   mobileRewards, pocRewards, totalsByWindow, counters, counted,
                   returned, snapshot>>
    /\ fetched' = Append(fetched, fileIdx)
    /\ UNCHANGED summary
    /\ UNCHANGED notScan

\* s3.send(new GetObjectCommand(..)) rejects
FetchFails ==
    /\ spc = "fetch"
    /\ fileIdx <= Len(scanFiles)
    /\ objBase' = Aggregates
    /\ lastFailure' = "fetch"
    /\ IF ObjectErrorEndsScan(mode)
       THEN spc' = "failed" /\ returned' = "error" /\ fileIdx' = fileIdx
       ELSE spc' = "fetch" /\ returned' = returned /\ fileIdx' = fileIdx + 1
    /\ UNCHANGED <<mode, listCalls, scanFiles, framesSeen, objMessages, mobileRewards,
                   pocRewards, totalsByWindow, counters, counted, snapshot>>
    /\ fetched' = Append(fetched, fileIdx)
    /\ UNCHANGED summary
    /\ UNCHANGED notScan

\* framedMessages yields a frame and the loop body runs on it
ProcessFrame(f) ==
    /\ spc = "frames"
    /\ framesSeen < MaxScanFrames
    /\ framesSeen' = framesSeen + 1
    /\ objMessages' = objMessages + 1
    /\ LET ts == scanFiles[fileIdx]
       IN  /\ mobileRewards' = IF mode = "dc" THEN DcFrame(mobileRewards, ts, f)
                               ELSE mobileRewards
           /\ pocRewards' = IF mode = "poc" THEN PocFrame(pocRewards, ts, f)
                            ELSE pocRewards
           /\ totalsByWindow' = IF mode = "fleet" /\ FleetCounts(f)
                                THEN FleetTotals(totalsByWindow, ts, f)
                                ELSE totalsByWindow
           /\ counters' = IF mode = "fleet" THEN FleetCounters(counters, f) ELSE counters
           /\ counted' = IF mode = "fleet" /\ FleetCounts(f)
                         THEN Append(counted, [ts |-> ts, msg |-> f.id])
                         ELSE counted
    /\ UNCHANGED <<mode, spc, listCalls, scanFiles, fileIdx, returned, snapshot,
                   objBase, lastFailure>>
    /\ UNCHANGED fetched
    /\ UNCHANGED summary
    /\ UNCHANGED notScan

NextFrame == \E f \in FramesFor(mode) : ProcessFrame(f)

\* the decompressed stream ends -- mutant: the loop does not move on, the
\* same object is requested again.
ObjectEndsStaysOnObject ==
    /\ spc = "frames"
    /\ spc' = "fetch"
    /\ UNCHANGED <<mode, listCalls, scanFiles, fileIdx, framesSeen, objMessages,
                   mobileRewards, pocRewards, totalsByWindow, counters, counted,
                   returned, snapshot, objBase, lastFailure, fetched>>
    /\ UNCHANGED summary
    /\ UNCHANGED notScan

\* the decompressed stream ends: framedMessages returns, the next object is due
ObjectEnds ==
    /\ spc = "frames"
    /\ spc' = "fetch"
    /\ fileIdx' = fileIdx + 1
    /\ UNCHANGED <<mode, listCalls, scanFiles, framesSeen, objMessages, mobileRewards,
                   pocRewards, totalsByWindow, counters, counted, returned, snapshot,
                   objBase, lastFailure>>
    /\ UNCHANGED fetched
    /\ UNCHANGED summary
    /\ UNCHANGED notScan

\* gunzip emits an error: the for-await over framedMessages throws
GunzipFails ==
    /\ spc = "frames"
    /\ lastFailure' = "gunzip"
    /\ IF ObjectErrorEndsScan(mode)
       THEN spc' = "failed" /\ returned' = "error" /\ fileIdx' = fileIdx
       ELSE spc' = "fetch" /\ returned' = returned /\ fileIdx' = fileIdx + 1
    /\ UNCHANGED <<mode, listCalls, scanFiles, framesSeen, objMessages, mobileRewards,
                   pocRewards, totalsByWindow, counters, counted, snapshot, objBase>>
    /\ UNCHANGED fetched
    /\ UNCHANGED summary
    /\ UNCHANGED notScan

\* the object loop is over: the single-device scrapers return their result,
\* run goes on to write its snapshot
ObjectsDone ==
    /\ spc = "fetch"
    /\ fileIdx > Len(scanFiles)
    /\ IF mode = "fleet"
       THEN spc' = "snapshot" /\ returned' = returned /\ summary' = summary
       ELSE /\ spc' = "done" /\ returned' = "result"
            /\ summary' = ScanSummary(mode, mobileRewards, pocRewards, Len(scanFiles))
    /\ UNCHANGED <<mode, listCalls, scanFiles, fileIdx, framesSeen, objMessages,
                   mobileRewards, pocRewards, totalsByWindow, counters, counted,
                   snapshot, objBase, lastFailure>>
    /\ UNCHANGED fetched
    /\ UNCHANGED notScan

\* supabase.from("top_earners_snapshots").insert({ results, meta })
InsertSnapshot ==
    /\ spc = "snapshot"
    /\ snapshot' = [results |-> FleetResults(totalsByWindow),
                    meta    |-> [files_in_range |-> Len(scanFiles)] @@ counters]
    /\ spc' = "done"
    /\ returned' = "result"
    /\ UNCHANGED <<mode, listCalls, scanFiles, fileIdx, framesSeen, objMessages,
                   mobileRewards, pocRewards, totalsByWindow, counters, counted,
                   objBase, lastFailure>>
    /\ UNCHANGED fetched
    /\ UNCHANGED summary
    /\ UNCHANGED notScan

\* the insert answers with an error: if (error) throw error
InsertSnapshotFails ==
    /\ spc = "snapshot"
    /\ spc' = "failed"
    /\ returned' = "error"
    /\ lastFailure' = "insert"
    /\ UNCHANGED <<mode, listCalls, scanFiles, fileIdx, framesSeen, objMessages,
                   mobileRewards, pocRewards, totalsByWindow, counters, counted,
                   snapshot, objBase>>
    /\ UNCHANGED fetched
    /\ UNCHANGED summary
    /\ UNCHANGED notScan

ScanNext ==
    \/ ScanListPage \/ ScanListDone \/ ScanListFails
    \/ FetchObject \/ FetchNoBody \/ FetchFails
    \/ NextFrame \/ ObjectEnds \/ GunzipFails
    \/ ObjectsDone \/ InsertSnapshot \/ InsertSnapshotFails

FrameById(id) == CHOOSE f \in FramePool : f.id = id

\* C5: when fetching or decompressing an object fails, the object adds
\* nothing to the aggregates (they are what they were when the object was
\* requested), the scan goes on and still ends with a result.
C5_ObjectFailureIsolated ==
    lastFailure \in {"fetch", "gunzip"} =>
        /\ Aggregates = objBase
        /\ spc # "failed"
        /\ returned # "error"

\* C6: a frame that fails to decode changes no total and does not end the
\* scan: the step that handles it leaves every aggregate, the scan position
\* and the outcome as they were (only the frame counts advance), so what
\* follows is processed as if the frame had not been there.
C6_DecodeFailureIsolated ==
    [][\A f \in FramePool :
          (~ f.ok /\ ProcessFrame(f)) =>
              /\ Aggregates' = Aggregates
              /\ spc' = "frames" /\ fileIdx' = fileIdx
              /\ returned' = returned /\ snapshot' = snapshot
              /\ mode = "fleet" =>
                    counters' = [counters EXCEPT !.framesScanned = @ + 1]]_vars

\* a fleet scan that met one undecodable frame among three and still wrote
\* its snapshot with both other frames counted
C6_Witness ==
    /\ mode = "fleet" /\ spc = "done" /\ snapshot # <<>>
    /\ counters.framesScanned = 3 /\ counters.decodedOk = 2
    /\ counters.rewardsCounted = 2

\* C7: when a listing call fails, the scan fails with the error passed to its
\* caller and there is no partial result: no rewards object is returned and
\* no snapshot is written.
C7_ListErrorPropagates ==
    lastFailure = "list" =>
        /\ spc = "failed" /\ returned = "error"
        /\ snapshot = <<>>
        /\ mobileRewards = <<>> /\ pocRewards = <<>> /\ counted = <<>>

\* the second listing call of a scan fails
C7_Witness == lastFailure = "list" /\ listCalls = 1 /\ spc = "failed"

\* C8: in the single-device DC scraper the recorded amount is the message's
\* unsigned 64-bit dcTransferReward, 0 when absent. The recorded amount is a
\* number in the signed 32-bit range; it equals the 64-bit value exactly when
\* it is not negative, the high half is 0 and the low half is that number.
C8_AmountIsUint64Value ==
    \A i \in 1..Len(mobileRewards) :
        LET e == mobileRewards[i]
            f == FrameById(e.msg)
        IN  IF f.dc.present
            THEN e.rewardAmount >= 0 /\ f.dc.high = 0 /\ f.dc.low = e.rewardAmount
            ELSE e.rewardAmount = 0

\* C9: an event is recorded only if one of its amounts is non-zero and the
\* device matches the target (single-device scans) or a device identifier was
\* derived (fleet scan).
C9_OnlyNonZeroMatching ==
    /\ \A i \in 1..Len(mobileRewards) :
          LET f == FrameById(mobileRewards[i].msg)
          IN  /\ f.dev = "target"
              /\ f.dc.present /\ (f.dc.high # 0 \/ f.dc.low # 0)
    /\ \A i \in 1..Len(pocRewards) :
          LET f == FrameById(pocRewards[i].msg)
          IN  f.dev = "target" /\ (f.base # 0 \/ f.boost # 0)
    /\ \A i \in 1..Len(counted) :
          LET f == FrameById(counted[i].msg)
          IN  f.dev # "none" /\ f.dc.present /\ (f.dc.high # 0 \/ f.dc.low # 0)

\* C15: in a scan no object is requested twice and the objects are requested
\* in the order of the listing, which is ascending in embedded timestamp; a
\* scan that returns its result has requested every in-range object exactly
\* once. Frames are processed only between the request of an object and the
\* request of the next, every entry they add carries that object's timestamp,
\* and the windows of the fleet scan change only in such a frame step: one
\* pass fills them all.
C15_SinglePassInOrder ==
    /\ [](/\ \A i \in 1..Len(fetched) : fetched[i] = i
          /\ Len(fetched) <= Len(scanFiles)
          /\ \A i \in 1..Len(scanFiles), j \in 1..Len(scanFiles) :
                i < j => scanFiles[i] <= scanFiles[j]
          /\ (spc = "done" /\ returned = "result") => Len(fetched) = Len(scanFiles)
          /\ spc = "frames" => fetched # <<>> /\ fetched[Len(fetched)] = fileIdx)
    /\ [][/\ fetched' # fetched => spc = "fetch" /\ fetched' = Append(fetched, fileIdx)
          /\ (framesSeen' # framesSeen \/ totalsByWindow' # totalsByWindow
                \/ mobileRewards' # mobileRewards \/ pocRewards' # pocRewards) =>
                /\ spc = "frames" /\ fetched' = fetched /\ fileIdx' = fileIdx
                /\ LET obj == scanFiles[fetched[Len(fetched)]]
                   IN  /\ \A i \in (Len(mobileRewards) + 1)..Len(mobileRewards') :
                             mobileRewards'[i].ts = obj
                       /\ \A i \in (Len(pocRewards) + 1)..Len(pocRewards') :
                             pocRewards'[i].ts = obj
                       /\ \A i \in (Len(counted) + 1)..Len(counted') :
                             counted'[i].ts = obj]_vars

\* a finished fleet scan over two objects of different timestamps, frames
\* counted from both, its snapshot written
C15_Witness ==
    /\ mode = "fleet" /\ spc = "done" /\ snapshot # <<>>
    /\ fetched = <<1, 2>>
    /\ Len(scanFiles) = 2 /\ scanFiles[1] < scanFiles[2]
    /\ Len(counted) = 3
    /\ counted[1].ts = scanFiles[1] /\ counted[3].ts = scanFiles[2]

\* C16: a scan that found no matching event ends without error with a zero
\* aggregate and with metadata that states how many objects and how many
\* frames were scanned. The metadata is the summary a single-device scraper
\* returns and the meta of the snapshot the fleet scan writes.
C16_EmptyScanHasFullMetadata ==
    (/\ spc = "done" /\ mobileRewards = <<>> /\ pocRewards = <<>> /\ counted = <<>>) =>
        /\ returned = "result"
        /\ LET meta == IF mode = "fleet" THEN snapshot.meta ELSE summary
           IN  /\ mode = "dc" => meta.totalRewards = 0 /\ meta.rewardCount = 0
               /\ mode = "poc" => meta.totalPoc = 0 /\ meta.rewardCount = 0
               /\ mode = "fleet" =>
                     \A w \in 1..Len(WINDOWS_DAYS) : snapshot.results[w] = <<>>
               /\ IF mode = "fleet" THEN meta.files_in_range = Len(scanFiles)
                                    ELSE meta.filesInRange = Len(scanFiles)
               /\ "framesScanned" \in DOMAIN meta
               /\ meta.framesScanned = framesSeen

-----------------------------------------------------------------------------
(***************************************************************************)
(* parseRewardsData                                                        *)
(***************************************************************************)

\* Most DC entries, and most PoC entries, given to parseRewardsData.
MaxRewards == 2

\* Object timestamps of the entries: the last millisecond of day 0, the first
\* of day 1, and one inside day 2.
ParseTimes == {MsPerDay - 1, MsPerDay, 2 * MsPerDay + 5}

DcEntries  == {[ts |-> t, rewardAmount |-> a] : t \in ParseTimes, a \in {0, 5, 7}}

PocEntries == {[ts |-> t, basePoc |-> b[1], boostedPoc |-> b[2], totalPoc |-> b[1] + b[2]] :
                  t \in ParseTimes, b \in {<<3, 1>>, <<0, 4>>}}

\* The entries of a scan come in ascending object timestamp.
RECURSIVE AscendingByTs(_, _)
AscendingByTs(S, n) ==
    IF n = 0 THEN {<<>>}
    ELSE LET shorter == AscendingByTs(S, n - 1)
             longest == {t \in shorter : Len(t) = n - 1}
         IN  shorter \cup
             UNION {{Append(t, x) : x \in {y \in S : t = <<>> \/ t[Len(t)].ts <= y.ts}} :
                    t \in longest}

\* reward.date.toISOString().split('T')[0] -- mutant: the day is taken from
\* a clock twelve hours ahead of UTC.
DateKeyAheadOfUtc(ts) == (ts + MsPerDay \div 2) \div MsPerDay

\* reward.date.toISOString().split('T')[0]: the UTC calendar day of the
\* object timestamp, kept as the number of that day counted from 1970-01-01
\* (the order of the date strings is the order of these numbers).
DateKey(ts) == ts \div MsPerDay

\* dailyRewards.has(dateKey)
HasDay(map, d) == \E i \in 1..Len(map) : map[i].date = d

\* dailyRewards.set(dateKey, { date: dateKey, totalRewardsDC: 0, ... })
NewDay(d) ==
    [date |-> d, totalRewardsDC |-> 0, totalBasePoc |-> 0, totalBoostedPoc |-> 0,
     totalPoc |-> 0, rewardCount |-> 0, pocRewardCount |-> 0]

WithDay(map, d) == IF HasDay(map, d) THEN map ELSE Append(map, NewDay(d))

\* rewards.forEach(reward => { ... }): one entry
AddDcReward(map, r) ==
    LET d == DateKey(r.ts)
        m == WithDay(map, d)
    IN  [i \in 1..Len(m) |->
            IF m[i].date = d
            THEN [m[i] EXCEPT !.totalRewardsDC = @ + r.rewardAmount,
                              !.rewardCount = @ + 1]
            ELSE m[i]]

\* pocData.pocRewards.forEach(pocReward => { ... }): one entry
AddPocReward(map, r) ==
    LET d == DateKey(r.ts)
        m == WithDay(map, d)
    IN  [i \in 1..Len(m) |->
            IF m[i].date = d
            THEN [m[i] EXCEPT !.totalBasePoc = @ + r.basePoc,
                              !.totalBoostedPoc = @ + r.boostedPoc,
                              !.totalPoc = @ + r.totalPoc,
                              !.pocRewardCount = @ + 1]
            ELSE m[i]]

\* .sort((a, b) => new Date(a.date) - new Date(b.date)): stable, by day
RECURSIVE InsertByDate(_, _)
InsertByDate(sorted, x) ==
    IF sorted = <<>> THEN <<x>>
    ELSE IF Head(sorted).date > x.date THEN <<x>> \o sorted
         ELSE <<Head(sorted)>> \o InsertByDate(Tail(sorted), x)

RECURSIVE SortByDate(_)
SortByDate(s) ==
    IF s = <<>> THEN <<>>
    ELSE InsertByDate(SortByDate(SubSeq(s, 1, Len(s) - 1)), s[Len(s)])

\* dailyRewardsArray.sort((a, b) => b.totalRewardsDC - a.totalRewardsDC):
\* stable, descending; Array.prototype.sort sorts the array in place
RECURSIVE InsertByDcDesc(_, _)
InsertByDcDesc(sorted, x) ==
    IF sorted = <<>> THEN <<x>>
    ELSE IF Head(sorted).totalRewardsDC < x.totalRewardsDC THEN <<x>> \o sorted
         ELSE <<Head(sorted)>> \o InsertByDcDesc(Tail(sorted), x)

RECURSIVE SortByDcDesc(_)
SortByDcDesc(s) ==
    IF s = <<>> THEN <<>>
    ELSE InsertByDcDesc(SortByDcDesc(SubSeq(s, 1, Len(s) - 1)), s[Len(s)])

\* dailyRewardsArray.reduce((sum, day) => sum + day.<field>, 0)
RECURSIVE ReduceDC(_)
ReduceDC(a) == IF a = <<>> THEN 0 ELSE ReduceDC(SubSeq(a, 1, Len(a) - 1)) + a[Len(a)].totalRewardsDC
RECURSIVE ReduceBasePoc(_)
ReduceBasePoc(a) == IF a = <<>> THEN 0 ELSE ReduceBasePoc(SubSeq(a, 1, Len(a) - 1)) + a[Len(a)].totalBasePoc
RECURSIVE ReduceBoostedPoc(_)
ReduceBoostedPoc(a) == IF a = <<>> THEN 0 ELSE ReduceBoostedPoc(SubSeq(a, 1, Len(a) - 1)) + a[Len(a)].totalBoostedPoc
RECURSIVE ReducePoc(_)
ReducePoc(a) == IF a = <<>> THEN 0 ELSE ReducePoc(SubSeq(a, 1, Len(a) - 1)) + a[Len(a)].totalPoc

\* the totals of enhancedSummary.dailyBreakdown
Breakdown(a) ==
    [activeDays |-> Len(a), totalDC |-> ReduceDC(a), totalBasePoc |-> ReduceBasePoc(a),
     totalBoostedPoc |-> ReduceBoostedPoc(a), totalPoc |-> ReducePoc(a)]

ParseInit ==
    /\ rewards \in AscendingByTs(DcEntries, MaxRewards)
    /\ pocInput \in AscendingByTs(PocEntries, MaxRewards)
    /\ dcParsed = 0 /\ pocParsed = 0
    /\ dailyRewards = <<>>
    /\ dailyRewardsArray = <<>>
    /\ dailyBreakdown = <<>>
    /\ ppc = "dc"
    /\ FrameIdle /\ ListIdle /\ ScanIdle /\ TopIdle /\ WireIdle /\ KeyIdle /\ DevIdle /\ RunIdle /\ DbIdle /\ TrkIdle

\* one turn of rewards.forEach
ParseDcReward ==
    /\ ppc = "dc"
    /\ dcParsed < Len(rewards)
    /\ dailyRewards' = AddDcReward(dailyRewards, rewards[dcParsed + 1])
    /\ dcParsed' = dcParsed + 1
    /\ UNCHANGED <<rewards, pocInput, pocParsed, dailyRewardsArray, dailyBreakdown, ppc>>
    /\ UNCHANGED notParse

\* rewards.forEach is over
ParseDcDone ==
    /\ ppc = "dc"
    /\ dcParsed = Len(rewards)
    /\ ppc' = "poc"
    /\ UNCHANGED <<rewards, pocInput, dcParsed, pocParsed, dailyRewards,
                   dailyRewardsArray, dailyBreakdown>>
    /\ UNCHANGED notParse

\* one turn of pocData.pocRewards.forEach
ParsePocReward ==
    /\ ppc = "poc"
    /\ pocParsed < Len(pocInput)
    /\ dailyRewards' = AddPocReward(dailyRewards, pocInput[pocParsed + 1])
    /\ pocParsed' = pocParsed + 1
    /\ UNCHANGED <<rewards, pocInput, dcParsed, dailyRewardsArray, dailyBreakdown, ppc>>
    /\ UNCHANGED notParse

\* the rest of the function: the array sorted by date, the totals, the
\* in-place sort for the "top performing days" listing, the return
ParseFinish ==
    /\ ppc = "poc"
    /\ pocParsed = Len(pocInput)
    /\ LET byDate == SortByDate(dailyRewards)
       IN  /\ dailyBreakdown' = Breakdown(byDate)
           /\ dailyRewardsArray' = SortByDcDesc(byDate)
    /\ ppc' = "done"
    /\ UNCHANGED <<rewards, pocInput, dcParsed, pocParsed, dailyRewards>>
    /\ UNCHANGED notParse

ParseNext == ParseDcReward \/ ParseDcDone \/ ParsePocReward \/ ParseFinish

\* The UTC calendar days the entries can fall on, and the entries of a day.
Days == 0..3

OnDay(ts, d) == d * MsPerDay <= ts /\ ts < (d + 1) * MsPerDay

RECURSIVE SumDc(_, _)
SumDc(rs, d) ==
    IF rs = <<>> THEN 0
    ELSE (IF OnDay(Head(rs).ts, d) THEN Head(rs).rewardAmount ELSE 0) + SumDc(Tail(rs), d)

RECURSIVE SumPoc(_, _, _)
SumPoc(rs, d, field) ==
    IF rs = <<>> THEN 0
    ELSE (IF OnDay(Head(rs).ts, d) THEN Head(rs)[field] ELSE 0) + SumPoc(Tail(rs), d, field)

RECURSIVE SumAllDc(_)
SumAllDc(rs) == IF rs = <<>> THEN 0 ELSE Head(rs).rewardAmount + SumAllDc(Tail(rs))

\* C10: a daily record exists for a UTC day exactly when a DC or PoC entry has
\* its object timestamp on that day (and then there is one record), its four
\* totals are the sums over exactly the entries of that day, and the summary
\* totalDC is the sum of all DC amounts.
C10_DailyTotalsExact ==
    ppc = "done" =>
        /\ \A d \in Days :
              LET recs == {i \in 1..Len(dailyRewardsArray) : dailyRewardsArray[i].date = d}
                  has  == \/ \E i \in 1..Len(rewards) : OnDay(rewards[i].ts, d)
                          \/ \E i \in 1..Len(pocInput) : OnDay(pocInput[i].ts, d)
              IN  /\ Cardinality(recs) = (IF has THEN 1 ELSE 0)
                  /\ \A i \in recs :
                        /\ dailyRewardsArray[i].totalRewardsDC = SumDc(rewards, d)
                        /\ dailyRewardsArray[i].totalBasePoc = SumPoc(pocInput, d, "basePoc")
                        /\ dailyRewardsArray[i].totalBoostedPoc = SumPoc(pocInput, d, "boostedPoc")
                        /\ dailyRewardsArray[i].totalPoc = SumPoc(pocInput, d, "totalPoc")
        /\ \A i \in 1..Len(dailyRewardsArray) : dailyRewardsArray[i].date \in Days
        /\ dailyBreakdown.totalDC = SumAllDc(rewards)

\* two DC entries either side of midnight UTC and PoC entries on the second
\* and on a third day: three records, one of them without any DC entry
C10_Witness ==
    /\ ppc = "done"
    /\ Len(rewards) = 2 /\ rewards[1].ts = MsPerDay - 1 /\ rewards[2].ts = MsPerDay
    /\ rewards[1].rewardAmount = 5 /\ rewards[2].rewardAmount = 7
    /\ Len(pocInput) = 2 /\ pocInput[1].ts = MsPerDay /\ pocInput[2].ts = 2 * MsPerDay + 5
    /\ Len(dailyRewardsArray) = 3
    /\ dailyBreakdown.totalDC = 12

\* C11: the daily records returned by parseRewardsData are in ascending date
\* order, whatever the per-day amounts are.
C11_DailyAscendingByDate ==
    ppc = "done" =>
        \A i \in 1..Len(dailyRewardsArray), j \in 1..Len(dailyRewardsArray) :
            i < j => dailyRewardsArray[i].date < dailyRewardsArray[j].date

-----------------------------------------------------------------------------
(***************************************************************************)
(* The fleet scan's windows                                                *)
(***************************************************************************)

\* The device identifiers a fleet scan can derive.
FleetDevices == {"target", "other"}

\* The running total of a device in a window's Map, 0 when it has no entry.
TotalOf(map, dev) ==
    IF \E i \in 1..Len(map) : map[i].device = dev
    THEN (CHOOSE e \in {map[i] : i \in 1..Len(map)} : e.device = dev).total
    ELSE 0

\* C12: in the fleet scan, after any prefix of the event stream, for every
\* device and any two configured windows w1 < w2 the device's running total in
\* window w1 is at most its running total in window w2.
C12_WindowsNested ==
    mode = "fleet" =>
        \A dev \in FleetDevices :
            \A a \in 1..Len(WINDOWS_DAYS), b \in 1..Len(WINDOWS_DAYS) :
                WINDOWS_DAYS[a] < WINDOWS_DAYS[b] =>
                    TotalOf(totalsByWindow[a], dev) <= TotalOf(totalsByWindow[b], dev)

\* in the middle of an object, a device whose totals differ between the 1-day
\* and the 7-day window, and another device met so far
C12_Witness ==
    /\ mode = "fleet" /\ spc = "frames"
    /\ TotalOf(totalsByWindow[1], "target") > 0
    /\ TotalOf(totalsByWindow[1], "target") < TotalOf(totalsByWindow[2], "target")
    /\ TotalOf(totalsByWindow[3], "other") > 0

\* Is an object timestamp inside the window of w days before the scan's end?
\* (endTs - ts) is at most w whole days.
InWindow(ts, w) == ((ScanEndTs - ts) + MsPerDay - 1) \div MsPerDay <= w

\* The DC amount the fleet scan read from a counted message.
CountedDc(e) == (CHOOSE f \in FleetFramePool : f.id = e.msg).dc.low

CountedDevice(e) == (CHOOSE f \in FleetFramePool : f.id = e.msg).dev

RECURSIVE SumCounted(_, _, _)
SumCounted(es, dev, w) ==
    IF es = <<>> THEN 0
    ELSE (IF CountedDevice(Head(es)) = dev /\ InWindow(Head(es).ts, w)
          THEN CountedDc(Head(es)) ELSE 0) + SumCounted(Tail(es), dev, w)

\* C13: in the fleet scan, the total of device d in window w is the sum of the
\* DC amounts of exactly the counted events of d whose object timestamp is at
\* least endTs minus w days (the cutoff included); a device has an entry in a
\* window exactly when it has such an event, so an event is added to every
\* window it falls in and to no other.
C13_WindowTotalsExact ==
    mode = "fleet" =>
        \A w \in 1..Len(WINDOWS_DAYS) :
            /\ \A dev \in FleetDevices :
                  /\ TotalOf(totalsByWindow[w], dev) = SumCounted(counted, dev, WINDOWS_DAYS[w])
                  /\ (\E i \in 1..Len(totalsByWindow[w]) : totalsByWindow[w][i].device = dev)
                        <=> (\E i \in 1..Len(counted) :
                                /\ CountedDevice(counted[i]) = dev
                                /\ InWindow(counted[i].ts, WINDOWS_DAYS[w]))
            /\ \A i \in 1..Len(totalsByWindow[w]) :
                  /\ totalsByWindow[w][i].device \in FleetDevices
                  /\ \A j \in 1..Len(totalsByWindow[w]) :
                        totalsByWindow[w][i].device = totalsByWindow[w][j].device => i = j

\* a finished scan whose objects lie before the 1-day window, one of them
\* exactly on the 7-day cutoff: nothing in the 1-day window, one event in the
\* 7-day window, more in the 30-day window
C13_Witness ==
    /\ mode = "fleet" /\ spc = "done" /\ snapshot # <<>>
    /\ scanFiles = <<16 * MsPerDay + 5, 17 * MsPerDay>>
    /\ totalsByWindow[1] = <<>>
    /\ TotalOf(totalsByWindow[2], "target") = 5
    /\ TotalOf(totalsByWindow[3], "target") = 10
    /\ TotalOf(totalsByWindow[3], "other") = 7

-----------------------------------------------------------------------------
(***************************************************************************)
(* topNFromTotals and the ranking of a window                              *)
(***************************************************************************)

\* Most devices in a window's Map.
MaxTopDevices == 3

\* Largest n given to topNFromTotals.
MaxTopN == 2

\* Largest total of a device.
MaxTotal == 2

\* A window's Map: distinct devices, each with a positive total, in the
\* order in which the devices were first counted.
RECURSIVE TotalsMaps(_)
TotalsMaps(n) ==
    IF n = 0 THEN {<<>>}
    ELSE LET shorter == TotalsMaps(n - 1)
             longest == {t \in shorter : Len(t) = n - 1}
         IN  shorter \cup
             UNION {{Append(t, [device |-> dv, total |-> tt]) :
                        dv \in (1..MaxTopDevices) \ {t[i].device : i \in 1..Len(t)},
                        tt \in 1..MaxTotal} :
                    t \in longest}

TopInit ==
    /\ topTotals \in TotalsMaps(MaxTopDevices)
    /\ topN \in 1..MaxTopN
    /\ topArr = <<>>
    /\ topResult = <<>>
    /\ tpc = "top"
    /\ FrameIdle /\ ListIdle /\ ScanIdle /\ ParseIdle /\ WireIdle /\ KeyIdle /\ DevIdle /\ RunIdle /\ DbIdle /\ TrkIdle

\* const top = topNFromTotals(totalsByWindow[windowKey], TOP_N)
TopN ==
    /\ tpc = "top"
    /\ topArr' = TopNFromTotals(topTotals, topN)
    /\ tpc' = "rank"
    /\ UNCHANGED <<topTotals, topN, topResult>>
    /\ UNCHANGED notTop

\* results[windowKey] = top.map(...)
TopRank ==
    /\ tpc = "rank"
    /\ topResult' = RankTop(topArr)
    /\ tpc' = "done"
    /\ UNCHANGED <<topTotals, topN, topArr>>
    /\ UNCHANGED notTop

TopNext == TopN \/ TopRank

\* The place of a device in the Map: the order in which devices were first
\* counted in the window.
FirstCounted(dev) == CHOOSE i \in 1..Len(topTotals) : topTotals[i].device = dev

\* C14: for a window the result lists at most n devices (all of them when
\* there are no more than n), each with its total, ordered by total
\* descending, equal totals in the order in which the devices were first
\* counted, rank equal to the position from 1, and no omitted device has a
\* larger total than a listed one.
C14_TopNRanked ==
    tpc = "done" =>
        LET listed_ == {topResult[i].device_key : i \in 1..Len(topResult)}
        IN  /\ Len(topResult) <= topN
            /\ Len(topResult) = (IF Len(topTotals) < topN THEN Len(topTotals) ELSE topN)
            /\ \A i \in 1..Len(topResult) :
                  /\ topResult[i].rank = i
                  /\ \E k \in 1..Len(topTotals) :
                        /\ topTotals[k].device = topResult[i].device_key
                        /\ topTotals[k].total = topResult[i].total_dc
            /\ \A i \in 1..Len(topResult), j \in 1..Len(topResult) :
                  i < j =>
                     /\ topResult[i].device_key # topResult[j].device_key
                     /\ topResult[i].total_dc >= topResult[j].total_dc
                     /\ topResult[i].total_dc = topResult[j].total_dc =>
                           FirstCounted(topResult[i].device_key)
                              < FirstCounted(topResult[j].device_key)
            /\ \A k \in 1..Len(topTotals) :
                  topTotals[k].device \notin listed_ =>
                     \A i \in 1..Len(topResult) :
                        topTotals[k].total <= topResult[i].total_dc

\* three devices for two places: the two with the larger, equal total are
\* listed in the order they were first counted, the first counted is left out
C14_Witness ==
    /\ tpc = "done"
    /\ Len(topTotals) = 3 /\ topN = 2
    /\ topTotals[1].total = 1 /\ topTotals[2].total = 2 /\ topTotals[3].total = 2
    /\ Len(topResult) = 2
    /\ topResult[1].device_key = topTotals[2].device
    /\ topResult[2].device_key = topTotals[3].device

-----------------------------------------------------------------------------
(***************************************************************************)
(* The wire readers: extractSubmessage, getPeriodFromFrame,                *)
(* parseRadioRewardV2                                                      *)
(***************************************************************************)

\* Most fields in a payload.
MaxFields == 3

\* null, and a value that is not null
Null == [isNull |-> TRUE]
Some(v) == [isNull |-> FALSE, val |-> v]

\* A field of a payload: its number, its wire type, and its value (wire type
\* 0) or its content bytes (wire types 1, 2 and 5). The fields with wire type
\* 3 and 7 are a bare tag.
Field(no, wire, val, bytes) == [no |-> no, wire |-> wire, val |-> val, bytes |-> bytes]

FieldPool ==
    { Field(1, 2, 0, <<7, 9>>),        \* hotspot_key
      Field(1, 2, 0, <<3>>),           \* hotspot_key, once more
      Field(2, 2, 0, <<65, 200>>),     \* cbsd_id: "A" and a byte that is no UTF-8
      Field(7, 0, 5, <<>>),            \* base PoC
      Field(8, 0, 300, <<>>),          \* boosted PoC, a two-byte varint
      Field(1, 0, 6, <<>>),            \* period start; number 1, not length-delimited
      Field(2, 0, 9, <<>>),            \* period end
      Field(9, 1, 0, <<56, 56, 56, 56, 56, 56, 56, 56>>),   \* 64-bit, bytes that read as tags
      Field(10, 5, 0, <<10, 10, 10, 10>>),                  \* 32-bit, bytes that read as tags
      Field(16, 2, 0, <<56, 1>>),      \* two-byte tag; content reads as field 7 = 1
      Field(12, 3, 0, <<>>),           \* start-group
      Field(13, 7, 0, <<>>) }          \* wire type 7

\* fieldNo values given to extractSubmessage (8 is the one scrapePocRewards uses)
FieldNos == {1, 8, 16}

RECURSIVE FieldSeqs(_)
FieldSeqs(n) ==
    IF n = 0 THEN {<<>>}
    ELSE LET shorter == FieldSeqs(n - 1)
         IN  shorter \cup {Append(t, f) : t \in {u \in shorter : Len(u) = n - 1}, f \in FieldPool}

\* A base-128 varint, least significant group first.
RECURSIVE EncVarint(_)
EncVarint(n) == IF n < 128 THEN <<n>> ELSE <<128 + (n % 128)>> \o EncVarint(n \div 128)

\* A field on the wire: the tag (number << 3 | wire type), then the value.
EncField(f) ==
    EncVarint(f.no * 8 + f.wire) \o
        (IF f.wire = 0 THEN EncVarint(f.val)
         ELSE IF f.wire = 2 THEN EncVarint(Len(f.bytes)) \o f.bytes
         ELSE f.bytes)

RECURSIVE EncFields(_)
EncFields(fs) == IF fs = <<>> THEN <<>> ELSE EncField(Head(fs)) \o EncFields(Tail(fs))

\* r.uint32() / r.uint64() at position pos (from 1): the value and the
\* position after it; reading past the end of the buffer throws (ok FALSE).
RECURSIVE VarintFrom(_, _, _, _)
VarintFrom(buf, pos, mult, acc) ==
    IF pos > Len(buf) THEN [ok |-> FALSE]
    ELSE IF buf[pos] < 128
         THEN [ok |-> TRUE, value |-> acc + buf[pos] * mult, next |-> pos + 1]
         ELSE VarintFrom(buf, pos + 1, mult * 128, acc + (buf[pos] - 128) * mult)

ReadVarint(buf, pos) == VarintFrom(buf, pos, 1, 0)

\* r.skip(n) does not throw
CanSkip(buf, pos, n) == pos - 1 + n <= Len(buf)

\* tag >>> 3 -- mutant: the field number is taken one bit too high.
TagFieldFromBitFour(tag) == tag \div 16

\* tag >>> 3
TagField(tag) == tag \div 8

\* tag & 7 -- mutant: only two bits of the wire type are kept.
TagWireTwoBits(tag) == tag % 4

\* tag & 7
TagWire(tag) == tag % 8

\* buf.subarray(start, end), positions from 1 and end exclusive
Subarray(buf, start, end) ==
    SubSeq(buf, start, IF end - 1 < Len(buf) THEN end - 1 ELSE Len(buf))

\* a reader that threw
Threw == [threw |-> TRUE]

\* extractSubmessage(frame, fieldNo), from position pos on
RECURSIVE ExtractFrom(_, _, _)
ExtractFrom(frame, pos, fieldNo) ==
    IF pos > Len(frame) THEN [threw |-> FALSE, found |-> FALSE, slice |-> <<>>]
    ELSE LET tag == ReadVarint(frame, pos)
         IN  IF ~ tag.ok THEN Threw
             ELSE LET field == TagField(tag.value)
                      wire  == TagWire(tag.value)
                  IN  IF wire = 2
                      THEN LET len == ReadVarint(frame, tag.next)
                           IN  IF ~ len.ok THEN Threw
                               ELSE IF field = fieldNo
                                    THEN [threw |-> FALSE, found |-> TRUE,
                                          slice |-> Subarray(frame, len.next,
                                                             len.next + len.value)]
                                    ELSE ExtractFrom(frame, len.next + len.value, fieldNo)
                      ELSE IF wire = 0
                      THEN LET v == ReadVarint(frame, tag.next)
                           IN  IF ~ v.ok THEN Threw
                               ELSE ExtractFrom(frame, v.next, fieldNo)
                      ELSE IF wire = 1
                      THEN IF CanSkip(frame, tag.next, 8)
                           THEN ExtractFrom(frame, tag.next + 8, fieldNo) ELSE Threw
                      ELSE IF wire = 5
                      THEN IF CanSkip(frame, tag.next, 4)
                           THEN ExtractFrom(frame, tag.next + 4, fieldNo) ELSE Threw
                      ELSE Threw

ExtractSubmessage(frame, fieldNo) == ExtractFrom(frame, 1, fieldNo)

\* getPeriodFromFrame(frame), from position pos on; a tag of another wire
\* type falls through the if-chain and the loop reads on after it
RECURSIVE PeriodFrom(_, _, _, _)
PeriodFrom(frame, pos, start, end) ==
    IF pos > Len(frame)
    THEN IF start.isNull \/ end.isNull
         THEN [threw |-> FALSE, isNull |-> TRUE, start |-> 0, end |-> 0]
         ELSE [threw |-> FALSE, isNull |-> FALSE, start |-> start.val, end |-> end.val]
    ELSE LET tag == ReadVarint(frame, pos)
         IN  IF ~ tag.ok THEN Threw
             ELSE LET field == TagField(tag.value)
                      wire  == TagWire(tag.value)
                  IN  IF wire = 0
                      THEN LET v == ReadVarint(frame, tag.next)
                           IN  IF ~ v.ok THEN Threw
                               ELSE PeriodFrom(frame, v.next,
                                               IF field = 1 THEN Some(v.value) ELSE start,
                                               IF field = 2 THEN Some(v.value) ELSE end)
                      ELSE IF wire = 2
                      THEN LET len == ReadVarint(frame, tag.next)
                           IN  IF ~ len.ok THEN Threw
                               ELSE PeriodFrom(frame, len.next + len.value, start, end)
                      ELSE IF wire = 1
                      THEN IF CanSkip(frame, tag.next, 8)
                           THEN PeriodFrom(frame, tag.next + 8, start, end) ELSE Threw
                      ELSE IF wire = 5
                      THEN IF CanSkip(frame, tag.next, 4)
                           THEN PeriodFrom(frame, tag.next + 4, start, end) ELSE Threw
                      ELSE PeriodFrom(frame, tag.next, start, end)

GetPeriodFromFrame(frame) == PeriodFrom(frame, 1, Null, Null)

\* new TextDecoder().decode(bytes), as code points, for bytes that are ASCII
\* or stand alone as no UTF-8 (these become U+FFFD)
Utf8Decode(bytes) == [i \in 1..Len(bytes) |-> IF bytes[i] < 128 THEN bytes[i] ELSE 65533]

\* bs58.encode(buffer), base58checkEncodeRaw's checksum and the placeholder,
\* as terms: the buffer encoded is `bytes`, followed when chk is TRUE by the
\* first four bytes of sha256(sha256(bytes)).
Bs58Encode(bytes, chk) == [base58 |-> bytes, chk |-> chk]

\* base58checkEncodeRaw(payload, version)
Base58checkEncodeRaw(payload, version) == Bs58Encode(<<version>> \o payload, TRUE)

\* `<unexpected hotspot_key length ${n} bytes>`
UnexpectedLength(n) == [unexpectedLength |-> n]

\* parseRadioRewardV2: hotspotPayload to hotspotId -- mutant: the 32-byte key
\* is encoded with a checksum as well.
HotspotIdAlwaysChecked(hotspotPayload) ==
    IF hotspotPayload.isNull THEN Null
    ELSE IF Len(hotspotPayload.val) = 264 \/ Len(hotspotPayload.val) = 32
         THEN Some(Base58checkEncodeRaw(hotspotPayload.val, 0))
         ELSE Some(UnexpectedLength(Len(hotspotPayload.val)))

\* parseRadioRewardV2: hotspotPayload to hotspotId
HotspotId(hotspotPayload) ==
    IF hotspotPayload.isNull THEN Null
    ELSE IF Len(hotspotPayload.val) = 264
         THEN Some(Base58checkEncodeRaw(hotspotPayload.val, 0))
         ELSE IF Len(hotspotPayload.val) = 32
              THEN Some(Bs58Encode(hotspotPayload.val, FALSE))
              ELSE Some(UnexpectedLength(Len(hotspotPayload.val)))

\* parseRadioRewardV2(rr2), from position pos on, acc holding hotspotPayload,
\* cbsdId, basePoc and boostedPoc; a tag of another wire type falls through
\* the if-chain and the loop reads on after it
RECURSIVE Rr2From(_, _, _)
Rr2From(rr2, pos, acc) ==
    IF pos > Len(rr2)
    THEN [threw |-> FALSE, hotspotPayload |-> acc.hotspotPayload,
          hotspotId |-> HotspotId(acc.hotspotPayload), cbsdId |-> acc.cbsdId,
          basePoc |-> acc.basePoc, boostedPoc |-> acc.boostedPoc,
          totalPoc |-> acc.basePoc + acc.boostedPoc]
    ELSE LET tag == ReadVarint(rr2, pos)
         IN  IF ~ tag.ok THEN Threw
             ELSE LET field == TagField(tag.value)
                      wire  == TagWire(tag.value)
                  IN  IF wire = 2
                      THEN LET len == ReadVarint(rr2, tag.next)
                           IN  IF ~ len.ok THEN Threw
                               ELSE LET bytes == Subarray(rr2, len.next, len.next + len.value)
                                    IN  Rr2From(rr2, len.next + len.value,
                                           [acc EXCEPT
                                              !.hotspotPayload =
                                                 IF field = 1 THEN Some(bytes) ELSE @,
                                              !.cbsdId =
                                                 IF field = 2 THEN Some(Utf8Decode(bytes)) ELSE @])
                      ELSE IF wire = 0
                      THEN LET v == ReadVarint(rr2, tag.next)
                           IN  IF ~ v.ok THEN Threw
                               ELSE Rr2From(rr2, v.next,
                                       [acc EXCEPT
                                          !.basePoc = IF field = 7 THEN v.value ELSE @,
                                          !.boostedPoc = IF field = 8 THEN v.value ELSE @])
                      ELSE IF wire = 1
                      THEN IF CanSkip(rr2, tag.next, 8)
                           THEN Rr2From(rr2, tag.next + 8, acc) ELSE Threw
                      ELSE IF wire = 5
                      THEN IF CanSkip(rr2, tag.next, 4)
                           THEN Rr2From(rr2, tag.next + 4, acc) ELSE Threw
                      ELSE Rr2From(rr2, tag.next, acc)

ParseRadioRewardV2(rr2) ==
    Rr2From(rr2, 1, [hotspotPayload |-> Null, cbsdId |-> Null, basePoc |-> 0, boostedPoc |-> 0])

WireInit ==
    /\ wFields \in FieldSeqs(MaxFields)
    /\ wBytes = EncFields(wFields)
    /\ wFieldNo \in FieldNos
    /\ wExtract = <<>> /\ wPeriod = <<>> /\ wRr2 = <<>>
    /\ wpc = "period"
    /\ FrameIdle /\ ListIdle /\ ScanIdle /\ ParseIdle /\ TopIdle /\ KeyIdle /\ DevIdle /\ RunIdle /\ DbIdle /\ TrkIdle

\* const period = getPeriodFromFrame(frame)
WirePeriod ==
    /\ wpc = "period"
    /\ wPeriod' = GetPeriodFromFrame(wBytes)
    /\ wpc' = "extract"
    /\ UNCHANGED <<wFields, wBytes, wFieldNo, wExtract, wRr2>>
    /\ UNCHANGED notWire

\* extractSubmessage(frame, fieldNo)
WireExtract ==
    /\ wpc = "extract"
    /\ wExtract' = ExtractSubmessage(wBytes, wFieldNo)
    /\ wpc' = "rr2"
    /\ UNCHANGED <<wFields, wBytes, wFieldNo, wPeriod, wRr2>>
    /\ UNCHANGED notWire

\* parseRadioRewardV2(rr2)
WireParseRr2 ==
    /\ wpc = "rr2"
    /\ wRr2' = ParseRadioRewardV2(wBytes)
    /\ wpc' = "done"
    /\ UNCHANGED <<wFields, wBytes, wFieldNo, wExtract, wPeriod>>
    /\ UNCHANGED notWire

WireNext == WirePeriod \/ WireExtract \/ WireParseRr2

\* Properties of the fields a payload was built from.
SupportedWire(f) == f.wire \in {0, 1, 2, 5}

AllSupported(fs) == \A i \in 1..Len(fs) : SupportedWire(fs[i])

\* the places of the fields of a number and wire type
Places(fs, no, wire) == {i \in 1..Len(fs) : fs[i].no = no /\ fs[i].wire = wire}

First(S) == CHOOSE i \in S : \A j \in S : i <= j
Last(S) == CHOOSE i \in S : \A j \in S : j <= i

\* C17: a payload that starts with a field whose wire type is not 0, 1, 2 or
\* 5 makes each of the three readers throw for it.
C17_UnknownWireTypeThrows ==
    (wpc = "done" /\ wFields # <<>> /\ ~ SupportedWire(wFields[1])) =>
        /\ wExtract.threw
        /\ wPeriod.threw
        /\ wRr2.threw

\* C18: for a payload whose fields all have wire type 0, 1, 2 or 5,
\* extractSubmessage(frame, n) does not throw, returns the content bytes of
\* the first length-delimited field numbered n, and null when there is none.
C18_ExtractFindsField ==
    (wpc \in {"rr2", "done"} /\ AllSupported(wFields)) =>
        /\ ~ wExtract.threw
        /\ LET at == Places(wFields, wFieldNo, 2)
           IN  IF at = {} THEN ~ wExtract.found
               ELSE wExtract.found /\ wExtract.slice = wFields[First(at)].bytes

\* a 32-bit field, then a varint numbered 1, then the length-delimited field
\* 1 that is found
C18_Witness ==
    /\ wpc = "done" /\ wFieldNo = 1 /\ Len(wFields) = 3
    /\ wFields[1].wire = 5
    /\ wFields[2].wire = 0 /\ wFields[2].no = 1
    /\ wFields[3].wire = 2 /\ wFields[3].no = 1
    /\ wExtract.found /\ wExtract.slice = <<7, 9>>

\* C19: for a payload whose fields all have wire type 0, 1, 2 or 5,
\* parseRadioRewardV2 does not throw and returns the bytes of the (last)
\* length-delimited field 1 as the hotspot key, turned into the identifier,
\* the decoded bytes of the length-delimited field 2 as the CBSD id, the
\* varint field 7 as basePoc and the varint field 8 as boostedPoc, null
\* or 0 when the field is absent, every other field skipped, and
\* totalPoc = basePoc + boostedPoc.
C19_RadioRewardFields ==
    (wpc = "done" /\ AllSupported(wFields)) =>
        LET keyAt  == Places(wFields, 1, 2)
            cbsdAt == Places(wFields, 2, 2)
            baseAt == Places(wFields, 7, 0)
            boostAt == Places(wFields, 8, 0)
            base  == IF baseAt = {} THEN 0 ELSE wFields[Last(baseAt)].val
            boost == IF boostAt = {} THEN 0 ELSE wFields[Last(boostAt)].val
        IN  /\ ~ wRr2.threw
            /\ IF keyAt = {} THEN wRr2.hotspotPayload.isNull /\ wRr2.hotspotId.isNull
               ELSE /\ ~ wRr2.hotspotPayload.isNull
                    /\ wRr2.hotspotPayload.val = wFields[Last(keyAt)].bytes
                    /\ ~ wRr2.hotspotId.isNull
                    /\ wRr2.hotspotId.val =
                          [unexpectedLength |-> Len(wFields[Last(keyAt)].bytes)]
            /\ IF cbsdAt = {} THEN wRr2.cbsdId.isNull
               ELSE /\ ~ wRr2.cbsdId.isNull
                    /\ Len(wRr2.cbsdId.val) = Len(wFields[Last(cbsdAt)].bytes)
                    /\ \A i \in 1..Len(wRr2.cbsdId.val) :
                          LET b == wFields[Last(cbsdAt)].bytes[i]
                          IN  wRr2.cbsdId.val[i] = (IF b < 128 THEN b ELSE 65533)
            /\ wRr2.basePoc = base
            /\ wRr2.boostedPoc = boost
            /\ wRr2.totalPoc = base + boost

\* key, CBSD id and a two-byte boosted PoC, no base PoC
C19_Witness ==
    /\ wpc = "done" /\ Len(wFields) = 3
    /\ wFields[1].no = 8 /\ wFields[2].no = 2 /\ wFields[2].wire = 2
    /\ wFields[3].no = 1 /\ wFields[3].wire = 2
    /\ ~ wRr2.threw
    /\ wRr2.basePoc = 0 /\ wRr2.boostedPoc = 300 /\ wRr2.totalPoc = 300
    /\ wRr2.cbsdId = Some(<<65, 65533>>)
    /\ wRr2.hotspotPayload = Some(<<7, 9>>)

-----------------------------------------------------------------------------
(***************************************************************************)
(* The hotspot identifier                                                  *)
(***************************************************************************)

\* Largest byte value in a key.
MaxKeyByte == 2

\* Lengths of the raw key: the two the code knows, their neighbours, and
\* the shortest.
KeyLengths == {0, 1, 31, 32, 33, 263, 264, 265}

\* A key of a length: its first byte, then one byte repeated.
KeyOf(len, a, b) == [i \in 1..len |-> IF i = 1 THEN a ELSE b]

KeyInit ==
    /\ kBytes \in {KeyOf(len, a, b) : len \in KeyLengths, a \in 0..MaxKeyByte, b \in 0..MaxKeyByte}
    /\ kId = <<>> /\ kIdAgain = <<>>
    /\ kpc = "derive"
    /\ FrameIdle /\ ListIdle /\ ScanIdle /\ ParseIdle /\ TopIdle /\ WireIdle /\ DevIdle /\ RunIdle /\ DbIdle /\ TrkIdle

\* parseRadioRewardV2 on a message with this hotspot_key
KeyDerive ==
    /\ kpc = "derive"
    /\ kId' = HotspotId(Some(kBytes))
    /\ kpc' = "again"
    /\ UNCHANGED <<kBytes, kIdAgain>>
    /\ UNCHANGED notKey

\* the same once more
KeyDeriveAgain ==
    /\ kpc = "again"
    /\ kIdAgain' = HotspotId(Some(kBytes))
    /\ kpc' = "done"
    /\ UNCHANGED <<kBytes, kId>>
    /\ UNCHANGED notKey

KeyNext == KeyDerive \/ KeyDeriveAgain

MaxKeyLen == 2

\* the bytes device keys are made of
KeyBytes == {0, 18, 255}

\* bs58: "123456789ABCDEFGHJKLMNPQRSTUVWXYZabcdefghijkmnopqrstuvwxyz"
ALPHABET ==
    <<49, 50, 51, 52, 53, 54, 55, 56, 57, 65, 66, 67, 68, 69, 70, 71, 72,
    74, 75, 76, 77, 78, 80, 81, 82, 83, 84, 85, 86, 87, 88, 89, 90, 97, 98,
    99, 100, 101, 102, 103, 104, 105, 106, 107, 109, 110, 111, 112, 113,
    114, 115, 116, 117, 118, 119, 120, 121, 122>>

\* Buffer.toString('hex'): "0123456789abcdef"
HexDigits ==
    <<48, 49, 50, 51, 52, 53, 54, 55, 56, 57, 97, 98, 99, 100, 101, 102>>

\* Buffer.toString('base64'):
\* "ABCDEFGHIJKLMNOPQRSTUVWXYZabcdefghijklmnopqrstuvwxyz0123456789+/"
Base64Chars ==
    <<65, 66, 67, 68, 69, 70, 71, 72, 73, 74, 75, 76, 77, 78, 79, 80, 81,
    82, 83, 84, 85, 86, 87, 88, 89, 90, 97, 98, 99, 100, 101, 102, 103, 104,
    105, 106, 107, 108, 109, 110, 111, 112, 113, 114, 115, 116, 117, 118,
    119, 120, 121, 122, 48, 49, 50, 51, 52, 53, 54, 55, 56, 57, 43, 47>>

Reverse(s) == [i \in 1..Len(s) |-> s[Len(s) + 1 - i]]

\* the number of leading elements of s equal to x
RECURSIVE Leading(_, _)
Leading(s, x) ==
    IF s = <<>> \/ s[1] # x THEN 0 ELSE 1 + Leading(Tail(s), x)

\* base-x, the inner loop: digits (least significant first, radix to)
\* times from plus carry
RECURSIVE MulAdd(_, _, _, _)
MulAdd(digits, from, to, carry) ==
    IF digits = <<>>
    THEN IF carry = 0 THEN <<>>
         ELSE <<carry % to>> \o MulAdd(<<>>, from, to, carry \div to)
    ELSE LET v == digits[1] * from + carry
         IN  <<v % to>> \o MulAdd(Tail(digits), from, to, v \div to)

\* base-x, the outer loop: the number written by source in radix from,
\* as digits of radix to, least significant first
RECURSIVE Convert(_, _, _, _)
Convert(source, from, to, acc) ==
    IF source = <<>> THEN acc
    ELSE Convert(Tail(source), from, to, MulAdd(acc, from, to, source[1]))

\* bs58.encode(buffer): one '1' per leading zero byte, then the digits
Bs58EncodeBytes(buf) ==
    LET zeroes == Leading(buf, 0)
        digits == Reverse(Convert(SubSeq(buf, zeroes + 1, Len(buf)), 256, 58, <<>>))
    IN  [i \in 1..zeroes |-> ALPHABET[1]] \o [i \in 1..Len(digits) |-> ALPHABET[digits[i] + 1]]

\* the digit of a character of the alphabet
DigitOf(c) == (CHOOSE i \in 1..Len(ALPHABET) : ALPHABET[i] = c) - 1

\* bs58.decode(string): throws on a character outside the alphabet
Bs58Decode(string) ==
    IF \E i \in 1..Len(string) : \A j \in 1..Len(ALPHABET) : ALPHABET[j] # string[i]
    THEN Threw
    ELSE LET zeroes == Leading(string, ALPHABET[1])
             digits == [i \in 1..(Len(string) - zeroes) |-> DigitOf(string[zeroes + i])]
             bytes  == Reverse(Convert(digits, 58, 256, <<>>))
         IN  [threw |-> FALSE, bytes |-> [i \in 1..zeroes |-> 0] \o bytes]

\* buffer.toString('hex')
ToHex(buf) ==
    [i \in 1..(2 * Len(buf)) |->
        IF i % 2 = 1 THEN HexDigits[(buf[(i + 1) \div 2] \div 16) + 1]
                     ELSE HexDigits[(buf[i \div 2] % 16) + 1]]

\* buffer.toString('base64'): three bytes to four characters, '=' padding
RECURSIVE ToBase64(_)
ToBase64(buf) ==
    IF buf = <<>> THEN <<>>
    ELSE LET n  == Len(buf)
             b1 == buf[1]
             b2 == IF n >= 2 THEN buf[2] ELSE 0
             b3 == IF n >= 3 THEN buf[3] ELSE 0
             c1 == Base64Chars[(b1 \div 4) + 1]
             c2 == Base64Chars[((b1 % 4) * 16 + (b2 \div 16)) + 1]
             c3 == IF n >= 2 THEN Base64Chars[((b2 % 16) * 4 + (b3 \div 64)) + 1] ELSE 61
             c4 == IF n >= 3 THEN Base64Chars[(b3 % 64) + 1] ELSE 61
         IN  <<c1, c2, c3, c4>> \o ToBase64(SubSeq(buf, 4, n))

\* crypto.createHash('sha256').update(data).digest(): 32 bytes that depend
\* on every byte of data and on its length
RECURSIVE Mix(_, _)
Mix(data, h) ==
    IF data = <<>> THEN h ELSE Mix(Tail(data), (h * 31 + data[1] + 7) % 65521)

Sha256(data) == [i \in 1..32 |-> ((Mix(data, Len(data) + i) * (i + 2)) \div 3) % 256]

\* base58checkEncode(data, version)
Base58checkEncode(data, version) ==
    LET versionedData == <<version>> \o data
        firstHash     == Sha256(versionedData)
        secondHash    == Sha256(firstHash)
        checksum      == SubSeq(secondHash, 1, 4)
        finalData     == versionedData \o checksum
    IN  Bs58EncodeBytes(finalData)

\* decoded.slice(1, -4) -- mutant: the version byte is kept
SliceChecksumOnly(decoded) == SubSeq(decoded, 1, Len(decoded) - 4)

\* decoded.slice(1, -4)
SliceVersionAndChecksum(decoded) == SubSeq(decoded, 2, Len(decoded) - 4)


\* getTargetDeviceFormats(targetKey): bs58.decode throws inside the try and
\* again inside the catch, and checks no checksum
GetTargetDeviceFormats(targetKey) ==
    LET decoded == Bs58Decode(targetKey)
    IN  IF decoded.threw THEN Threw
        ELSE LET data == SliceVersionAndChecksum(decoded.bytes)
             IN  [threw     |-> FALSE,
                  original  |-> targetKey,
                  rawBase58 |-> Bs58EncodeBytes(data),
                  hex       |-> ToHex(data),
                  base64    |-> ToBase64(data)]

\* Object.entries(targetFormats), the values
FormatValues(targetFormats) ==
    <<targetFormats.original, targetFormats.rawBase58, targetFormats.hex,
      targetFormats.base64>>

\* string.includes(value)
Includes(string, value) ==
    \E i \in 0..(Len(string) - Len(value)) :
        SubSeq(string, i + 1, i + Len(value)) = value

\* the decimal digits of a byte
Decimal(b) ==
    IF b < 10 THEN <<48 + b>>
    ELSE IF b < 100 THEN <<48 + (b \div 10), 48 + (b % 10)>>
         ELSE <<48 + (b \div 100), 48 + ((b \div 10) % 10), 48 + (b % 10)>>

RECURSIVE JoinBytes(_)
JoinBytes(bytes) ==
    IF bytes = <<>> THEN <<>>
    ELSE IF Len(bytes) = 1 THEN Decimal(bytes[1])
         ELSE Decimal(bytes[1]) \o <<44>> \o JoinBytes(Tail(bytes))

Quoted(string) == <<34>> \o string \o <<34>>

\* JSON.stringify of a Buffer: {"type":"Buffer","data":[...]}
BufferJson(bytes) ==
    <<123, 34, 116, 121, 112, 101, 34, 58, 34, 66, 117, 102, 102, 101, 114,
    34, 44, 34, 100, 97, 116, 97, 34, 58, 91>>
    \o JoinBytes(bytes) \o <<93, 125>>

\* enrichBytes(value) of a Buffer, serialized
EnrichBytes(bytes) ==
    <<123>>
    \o <<34, 95, 98, 121, 116, 101, 115, 95, 98, 97, 115, 101, 54, 52, 34,
    58>>
    \o Quoted(ToBase64(bytes)) \o <<44>>
    \o <<34, 95, 98, 121, 116, 101, 115, 95, 104, 101, 120, 34, 58>>
    \o Quoted(ToHex(bytes)) \o <<44>>
    \o <<34, 95, 98, 121, 116, 101, 115, 95, 98, 97, 115, 101, 53, 56, 34,
    58>>
    \o Quoted(Bs58EncodeBytes(bytes)) \o <<44>>
    \o <<34, 95, 98, 121, 116, 101, 115, 95, 98, 97, 115, 101, 53, 56, 99,
    104, 101, 99, 107, 34, 58>>
    \o Quoted(Base58checkEncode(bytes, 0)) \o <<125>>

\* JSON.stringify(message), or of enrichBytes(message): a message of a
\* bytes field and a string field, an absent field being left out
Stringify(message, enriched) ==
    LET key  == IF message.hotspotKey.isNull THEN <<>>
                ELSE
                     <<34, 104, 111, 116, 115, 112, 111, 116, 75, 101, 121,
                     34, 58>>
                     \o (IF enriched THEN EnrichBytes(message.hotspotKey.val)
                                     ELSE BufferJson(message.hotspotKey.val))
        cbsd == IF message.cbsdId.isNull THEN <<>>
                ELSE
                     <<34, 99, 98, 115, 100, 73, 100, 34, 58>>
                     \o Quoted(message.cbsdId.val)
        sep  == IF key # <<>> /\ cbsd # <<>> THEN <<44>> ELSE <<>>
    IN  <<123>> \o key \o sep \o cbsd \o <<125>>

\* containsTargetDevice(message, targetFormats) -- mutant: only the key as
\* it was given is looked for
ContainsOriginalOnly(message, targetFormats) ==
    \/ Includes(Stringify(message, FALSE), targetFormats.original)
    \/ Includes(Stringify(message, TRUE), targetFormats.original)

\* containsTargetDevice(message, targetFormats)
ContainsTargetDeviceIn(message, targetFormats) ==
    LET messageStr  == Stringify(message, FALSE)
        enrichedStr == Stringify(message, TRUE)
        values      == FormatValues(targetFormats)
    IN  IF \E i \in 1..Len(values) : Includes(messageStr, values[i]) THEN TRUE
        ELSE IF \E i \in 1..Len(values) : Includes(enrichedStr, values[i]) THEN TRUE
             ELSE FALSE

\* matchesTargetDevice(deviceKey, targetFormats)
MatchesTargetDevice(deviceKey, targetFormats) ==
    IF deviceKey.isNull \/ deviceKey.val = <<>> THEN FALSE
    ELSE IF deviceKey.val = targetFormats.original THEN TRUE
    ELSE LET decoded       == Bs58Decode(deviceKey.val)
             targetDecoded == Bs58Decode(targetFormats.original)
             values        == FormatValues(targetFormats)
         IN  IF ~decoded.threw /\ ~targetDecoded.threw /\ decoded.bytes = targetDecoded.bytes
             THEN TRUE
             ELSE IF \E i \in 1..Len(values) : Includes(deviceKey.val, values[i])
                  THEN TRUE
                  ELSE FALSE


\* the ways the key of the second scan is written
KeyKinds == {"base58check", "hex", "rawBase58", "badChecksum", "notBase58"}

\* the checksummed form with its last checksum byte changed
BadChecksumKey(payload, version) ==
    LET good == Bs58Decode(Base58checkEncode(payload, version)).bytes
    IN  Bs58EncodeBytes([good EXCEPT ![Len(good)] = (good[Len(good)] + 1) % 256])

KeyOfKind(kind, payload, version) ==
    CASE kind = "base58check" -> Base58checkEncode(payload, version)
      [] kind = "hex"         -> ToHex(payload)
      [] kind = "rawBase58"   -> Bs58EncodeBytes(payload)
      [] kind = "badChecksum" -> BadChecksumKey(payload, version)
      [] kind = "notBase58"   -> Base58checkEncode(payload, version) \o <<108>>

Payloads == UNION {[1..n -> KeyBytes] : n \in 0..MaxKeyLen}

\* what a scan comes to: a decoded message, and the identifier
\* parseRadioRewardV2 gives for it -- of the device, of another one, of none
FramesOf(payload, version) ==
    {[msg  |-> [hotspotKey |-> Some(payload), cbsdId |-> Null],
      cand |-> Some(Base58checkEncode(payload, 0))],
     [msg  |-> [hotspotKey |-> Some(payload), cbsdId |-> Some(Base58checkEncode(payload, version))],
      cand |-> Some(Bs58EncodeBytes(payload))],
     [msg  |-> [hotspotKey |-> Some(payload), cbsdId |-> Null],
      cand |-> Some(ToHex(payload))],
     [msg  |-> [hotspotKey |-> Some(<<7>>), cbsdId |-> Null],
      cand |-> Some(Base58checkEncode(<<7>>, 0))],
     [msg  |-> [hotspotKey |-> Some(<<7>>), cbsdId |-> Some(Base58checkEncode(payload, version))],
      cand |-> Some(<<>>)],
     [msg  |-> [hotspotKey |-> Null, cbsdId |-> Null],
      cand |-> Null]}

Scans == {1, 2}

DevInit ==
    /\ dPayload \in Payloads
    /\ dVersion \in {0, 5}
    /\ dKind \in KeyKinds
    /\ dKey = <<Base58checkEncode(dPayload, dVersion), KeyOfKind(dKind, dPayload, dVersion)>>
    /\ \E f \in FramesOf(dPayload, dVersion) : dMsg = f.msg /\ dCand = f.cand
    /\ dFormats = <<Null, Null>>
    /\ dContains = <<FALSE, FALSE>>
    /\ dMatches = <<FALSE, FALSE>>
    /\ dpc = <<"derive", "wait">>
    /\ FrameIdle /\ ListIdle /\ ScanIdle /\ ParseIdle /\ TopIdle /\ WireIdle /\ KeyIdle /\ RunIdle /\ DbIdle /\ TrkIdle

\* scrapeHeliumRewards / scrapePocRewards: targetFormats is derived at the
\* start of the scan, and a throw there ends the scan
DevDerive(s) ==
    /\ dpc[s] = "derive"
    /\ dFormats' = [dFormats EXCEPT ![s] = GetTargetDeviceFormats(dKey[s])]
    /\ dpc' = [dpc EXCEPT ![s] = IF dFormats'[s].threw THEN "failed" ELSE "dc"]
    /\ UNCHANGED <<dPayload, dVersion, dKind, dKey, dMsg, dCand, dContains, dMatches>>
    /\ UNCHANGED notDev

\* scrapeHeliumRewards: the device test of a decoded message
DevContains(s) ==
    /\ dpc[s] = "dc"
    /\ dContains' = [dContains EXCEPT ![s] = ContainsTargetDeviceIn(dMsg, dFormats[s])]
    /\ dpc' = [dpc EXCEPT ![s] = "poc"]
    /\ UNCHANGED <<dPayload, dVersion, dKind, dKey, dFormats, dMsg, dCand, dMatches>>
    /\ UNCHANGED notDev

\* scrapePocRewards: the device test of a radio reward's identifier
DevMatches(s) ==
    /\ dpc[s] = "poc"
    /\ dMatches' = [dMatches EXCEPT ![s] = MatchesTargetDevice(dCand, dFormats[s])]
    /\ dpc' = [dpc EXCEPT ![s] = "done"]
    /\ UNCHANGED <<dPayload, dVersion, dKind, dKey, dFormats, dMsg, dCand, dContains>>
    /\ UNCHANGED notDev

\* the second scan of the same device starts when the first has ended
DevSecondScan ==
    /\ dpc[1] \in {"done", "failed"}
    /\ dpc[2] = "wait"
    /\ dpc' = [dpc EXCEPT ![2] = "derive"]
    /\ UNCHANGED <<dPayload, dVersion, dKind, dKey, dFormats, dMsg, dCand, dContains, dMatches>>
    /\ UNCHANGED notDev

DevNext ==
    \/ \E s \in Scans : DevDerive(s)
    \/ \E s \in Scans : DevContains(s)
    \/ \E s \in Scans : DevMatches(s)
    \/ DevSecondScan

\* the scan has derived its formats
Derived(s) == dpc[s] \in {"dc", "poc", "done", "failed"}

\* C21: the first scan's key is base58checkEncode(payload, version); what
\* getTargetDeviceFormats decodes from it starts with the version byte, and
\* the formats it derives are the plain base58, hex and base64 encodings of
\* the payload.
C21_CheckedKeyRoundTrip ==
    Derived(1) =>
        /\ ~dFormats[1].threw
        /\ Bs58Decode(dKey[1]).bytes[1] = dVersion
        /\ SliceVersionAndChecksum(Bs58Decode(dKey[1]).bytes) = dPayload
        /\ dFormats[1].rawBase58 = Bs58EncodeBytes(dPayload)
        /\ dFormats[1].hex = ToHex(dPayload)
        /\ dFormats[1].base64 = ToBase64(dPayload)

C21_Witness ==
    /\ Derived(1) /\ Len(dPayload) = MaxKeyLen /\ dPayload[1] = 0 /\ dVersion = 5
    /\ dFormats[1].hex = ToHex(dPayload)

\* a key that is base58, has a version byte and four more bytes, and ends
\* with the double SHA-256 checksum of what precedes them
ValidChecked(targetKey) ==
    LET decoded == Bs58Decode(targetKey)
    IN  /\ ~decoded.threw
        /\ Len(decoded.bytes) >= 5
        /\ LET body == SubSeq(decoded.bytes, 1, Len(decoded.bytes) - 4)
           IN  SubSeq(decoded.bytes, Len(decoded.bytes) - 3, Len(decoded.bytes))
                   = SubSeq(Sha256(Sha256(body)), 1, 4)

\* C22: for a key that is not valid checksummed base58 the derived formats
\* are the fallback ones: the call does not fail, rawBase58 is the key
\* itself, and hex and base64 encode the key's own decoded bytes.
C22_FallbackFormats ==
    (Derived(2) /\ ~ValidChecked(dKey[2])) =>
        /\ ~dFormats[2].threw
        /\ dFormats[2].rawBase58 = dKey[2]
        /\ dFormats[2].hex = ToHex(Bs58Decode(dKey[2]).bytes)
        /\ dFormats[2].base64 = ToBase64(Bs58Decode(dKey[2]).bytes)

\* C23: a scan given the checksummed key and a scan given the hex of the
\* same bytes match the same messages and identifiers (a scan that has
\* failed has matched nothing).
C23_HexKeyMatchesTheSame ==
    (dKind = "hex" /\ dpc[1] = "done" /\ dpc[2] \in {"done", "failed"}) =>
        /\ dContains[2] = dContains[1]
        /\ dMatches[2] = dMatches[1]

\* the candidate decodes to the bytes the key as given decodes to
SameBytes(candidate, targetFormats) ==
    /\ ~Bs58Decode(candidate).threw
    /\ ~Bs58Decode(targetFormats.original).threw
    /\ Bs58Decode(candidate).bytes = Bs58Decode(targetFormats.original).bytes

\* the string forms of the target
Representations(targetFormats) ==
    {targetFormats.original, targetFormats.rawBase58, targetFormats.hex,
     targetFormats.base64}

\* C24: a candidate matches iff it is non-empty and contains one of the
\* target's representations or decodes to the bytes of the key as given;
\* a message contains the target iff one of the representations occurs in
\* its serialization or in the serialization of its byte-enriched form.
C24_MatchTestsEveryFormat ==
    LET messageStr  == Stringify(dMsg, FALSE)
        enrichedStr == Stringify(dMsg, TRUE)
    IN  \A s \in Scans :
            /\ dpc[s] \in {"poc", "done"} =>
                  dContains[s] =
                      \E r \in Representations(dFormats[s]) :
                          Includes(messageStr, r) \/ Includes(enrichedStr, r)
            /\ dpc[s] = "done" =>
                  dMatches[s] =
                      /\ ~dCand.isNull
                      /\ dCand.val # <<>>
                      /\ \/ \E r \in Representations(dFormats[s]) : Includes(dCand.val, r)
                         \/ SameBytes(dCand.val, dFormats[s])

\* a message of the device is found through a derived form, an unrelated
\* identifier is not
C24_Witness ==
    /\ dpc[1] = "done" /\ Len(dPayload) = MaxKeyLen
    /\ dContains[1] /\ ~Includes(Stringify(dMsg, TRUE), dFormats[1].original)
    /\ dMsg.cbsdId.isNull
    /\ ~dCand.isNull /\ dCand.val # <<>> /\ ~dMatches[1]


(***************************************************************************)
(* The orchestrator (runRewardsScrape.js): runRewardsScrape for one        *)
(* device, and runBatchRewardsScrape around it.  The device keys are       *)
(* strings and options.dateRange is absent or a range of valid dates, so   *)
(* the logging before the try block does not throw.  Each awaited call is  *)
(* a step of its own; synchronous code runs within the step it follows.    *)
(***************************************************************************)

\* the most device keys in a batch
MaxDevices == 2

DevicePool == {"deviceA", "deviceB"}

\* what scrapeHeliumRewards may return for a device; an amount with the
\* sign bit set is recorded as a negative number
DcScrapes ==
    {[rewards |-> <<>>],
     [rewards |-> <<[ts |-> MsPerDay, rewardAmount |-> 5]>>],
     [rewards |-> <<[ts |-> MsPerDay, rewardAmount |-> 5],
                    [ts |-> 2 * MsPerDay, rewardAmount |-> -7]>>]}

\* what scrapePocRewards may return for a device
PocScrapes ==
    {[pocRewards |-> <<>>],
     [pocRewards |-> <<[ts |-> MsPerDay, basePoc |-> 3, boostedPoc |-> 1, totalPoc |-> 4]>>]}

\* what upsertHeliumRewards may return
UpsertResults ==
    {[success |-> TRUE, errorCount |-> 0], [success |-> TRUE, errorCount |-> 1]}

RECURSIVE AddAllDc(_, _)
AddAllDc(map, list) ==
    IF list = <<>> THEN map
    ELSE AddAllDc(AddDcReward(map, list[1]), Tail(list))

RECURSIVE AddAllPoc(_, _)
AddAllPoc(map, list) ==
    IF list = <<>> THEN map
    ELSE AddAllPoc(AddPocReward(map, list[1]), Tail(list))

\* parseRewardsData(scrapedData, pocData)
ParseRewardsData(scraped, poc) ==
    [deviceKey    |-> scraped.deviceKey,
     dailyRewards |-> SortByDate(AddAllPoc(AddAllDc(<<>>, scraped.rewards), poc.pocRewards)),
     enriched     |-> FALSE]

\* validateRewardData(parsedData): the errors collected; every day of
\* parseRewardsData has a date and a reward type
ValidationErrors(parsed) ==
    (IF parsed.deviceKey = "" THEN <<"Missing device key">> ELSE <<>>)
    \o SelectSeq([i \in 1..Len(parsed.dailyRewards) |->
                     IF parsed.dailyRewards[i].totalRewardsDC < 0
                     THEN "Invalid reward amount" ELSE ""],
                 LAMBDA e : e # "")

\* validateRewardData(parsedData) -- mutant: a negative total is let through
ValidateAcceptsAll(parsed) == FALSE

\* validateRewardData(parsedData) throws
ValidateThrows(parsed) == Len(ValidationErrors(parsed)) > 0

\* enrichRewardData(parsedData)
EnrichRewardData(parsed) == [parsed EXCEPT !.enriched = TRUE]

\* the value returned from the catch block of runRewardsScrape
Failure(deviceKey, error, scraped, poc, parsed, upsert) ==
    [success |-> FALSE, deviceKey |-> deviceKey, error |-> error,
     partialResults |-> [scrapedData |-> scraped, pocData |-> poc,
                         parsedData |-> parsed, upsertResult |-> upsert]]

\* the value returned when neither scrape found a reward
NoRewards(deviceKey, scraped) ==
    [success |-> TRUE, deviceKey |-> deviceKey, error |-> "",
     partialResults |-> [scrapedData |-> scraped, pocData |-> Null,
                         parsedData |-> Null, upsertResult |-> Null]]

\* the value returned after the upsert
Completed(deviceKey, scraped, poc, parsed, upsert) ==
    [success |-> TRUE, deviceKey |-> deviceKey, error |-> "",
     partialResults |-> [scrapedData |-> scraped, pocData |-> poc,
                         parsedData |-> parsed, upsertResult |-> upsert]]

Step(name, ok) == [step |-> name, ok |-> ok]

\* results.filter(r => r.success).length
RECURSIVE SuccessCount(_)
SuccessCount(list) ==
    IF list = <<>> THEN 0
    ELSE (IF list[1].success THEN 1 ELSE 0) + SuccessCount(Tail(list))

\* the return value of runBatchRewardsScrape
BatchReturn(keyList, list) ==
    LET successCount == SuccessCount(list)
        failureCount == Len(list) - successCount
    IN  [success      |-> failureCount = 0,
         totalDevices |-> Len(keyList),
         successCount |-> successCount,
         failureCount |-> failureCount,
         results      |-> list]

RunInit ==
    /\ deviceKeys \in UNION {[1..n -> DevicePool] : n \in 0..MaxDevices}
    /\ devIdx = 1
    /\ scrapedData = Null /\ pocData = Null /\ parsedData = Null /\ upsertResult = Null
    /\ stepLog = <<>> /\ batchResults = <<>> /\ stepLogs = <<>> /\ delays = <<>>
    /\ batchReturn = Null
    /\ rpc = "loop"
    /\ FrameIdle /\ ListIdle /\ ScanIdle /\ ParseIdle /\ TopIdle /\ WireIdle /\ KeyIdle /\ DevIdle /\ DbIdle /\ TrkIdle

\* runRewardsScrape returns result to the batch loop, which pushes it and
\* waits if another device follows
Return(result, log) ==
    /\ batchResults' = Append(batchResults, result)
    /\ stepLogs' = Append(stepLogs, log)
    /\ stepLog' = log
    /\ rpc' = IF devIdx < Len(deviceKeys) THEN "wait" ELSE "next"

\* for (let i = 0; i < deviceKeys.length; i++): runRewardsScrape is called
\* for the next key and awaits testConnection()
BatchCallsRun ==
    /\ rpc = "loop"
    /\ devIdx <= Len(deviceKeys)
    /\ scrapedData' = Null /\ pocData' = Null /\ parsedData' = Null /\ upsertResult' = Null
    /\ stepLog' = <<>>
    /\ rpc' = "connection"
    /\ UNCHANGED <<deviceKeys, devIdx, batchResults, stepLogs, delays, batchReturn>>
    /\ UNCHANGED notRun

\* step 1: testConnection() resolves true
ConnectionOk ==
    /\ rpc = "connection"
    /\ stepLog' = Append(stepLog, Step("connection", TRUE))
    /\ rpc' = "dc"
    /\ UNCHANGED <<deviceKeys, devIdx, scrapedData, pocData, parsedData, upsertResult,
                   batchResults, stepLogs, delays, batchReturn>>
    /\ UNCHANGED notRun

\* step 1: testConnection() resolves false or rejects
ConnectionFails ==
    /\ rpc = "connection"
    /\ \E error \in {"Database connection test failed", "connection rejected"} :
          Return(Failure(deviceKeys[devIdx], error, Null, Null, Null, Null),
                 Append(stepLog, Step("connection", FALSE)))
    /\ UNCHANGED <<deviceKeys, devIdx, scrapedData, pocData, parsedData, upsertResult,
                   delays, batchReturn>>
    /\ UNCHANGED notRun

\* step 2: scrapeHeliumRewards resolves
ScrapeDcOk ==
    /\ rpc = "dc"
    /\ \E data \in DcScrapes :
          scrapedData' = Some([deviceKey |-> deviceKeys[devIdx], rewards |-> data.rewards])
    /\ stepLog' = Append(stepLog, Step("dc", TRUE))
    /\ rpc' = "poc"
    /\ UNCHANGED <<deviceKeys, devIdx, pocData, parsedData, upsertResult,
                   batchResults, stepLogs, delays, batchReturn>>
    /\ UNCHANGED notRun

\* step 2: scrapeHeliumRewards rejects
ScrapeDcFails ==
    /\ rpc = "dc"
    /\ Return(Failure(deviceKeys[devIdx], "dc scrape failed", Null, Null, Null, Null),
              Append(stepLog, Step("dc", FALSE)))
    /\ UNCHANGED <<deviceKeys, devIdx, scrapedData, pocData, parsedData, upsertResult,
                   delays, batchReturn>>
    /\ UNCHANGED notRun

\* step 3: scrapePocRewards rejects
ScrapePocFails ==
    /\ rpc = "poc"
    /\ Return(Failure(deviceKeys[devIdx], "poc scrape failed", scrapedData, Null, Null, Null),
              Append(stepLog, Step("poc", FALSE)))
    /\ UNCHANGED <<deviceKeys, devIdx, scrapedData, pocData, parsedData, upsertResult,
                   delays, batchReturn>>
    /\ UNCHANGED notRun

\* step 3: scrapePocRewards resolves; then, with no reward at all, the early
\* return, and otherwise steps 4 to 6 (parse, validate, enrich) up to the
\* await of upsertHeliumRewards
ScrapePocOk ==
    /\ rpc = "poc"
    /\ \E data \in PocScrapes :
          LET poc    == Some([deviceKey |-> deviceKeys[devIdx], pocRewards |-> data.pocRewards])
              log3   == Append(stepLog, Step("poc", TRUE))
              parsed == ParseRewardsData(scrapedData.val, poc.val)
              log4   == Append(log3, Step("parse", TRUE))
          IN  /\ pocData' = poc
              /\ IF scrapedData.val.rewards = <<>> /\ data.pocRewards = <<>>
                 THEN /\ Return(NoRewards(deviceKeys[devIdx], scrapedData), log3)
                      /\ UNCHANGED parsedData
                 ELSE IF ValidateThrows(parsed)
                      THEN /\ parsedData' = Some(parsed)
                           /\ Return(Failure(deviceKeys[devIdx], "Validation failed",
                                             scrapedData, poc, Some(parsed), Null),
                                     Append(log4, Step("validate", FALSE)))
                      ELSE /\ parsedData' = Some(EnrichRewardData(parsed))
                           /\ stepLog' = log4 \o <<Step("validate", TRUE), Step("enrich", TRUE)>>
                           /\ rpc' = "upsert"
                           /\ UNCHANGED <<batchResults, stepLogs>>
    /\ UNCHANGED <<deviceKeys, devIdx, scrapedData, upsertResult, delays, batchReturn>>
    /\ UNCHANGED notRun

\* step 7: upsertHeliumRewards resolves
UpsertOk ==
    /\ rpc = "upsert"
    /\ \E r \in UpsertResults :
          /\ upsertResult' = Some(r)
          /\ Return(Completed(deviceKeys[devIdx], scrapedData, pocData, parsedData, Some(r)),
                    Append(stepLog, Step("upsert", TRUE)))
    /\ UNCHANGED <<deviceKeys, devIdx, scrapedData, pocData, parsedData, delays, batchReturn>>
    /\ UNCHANGED notRun

\* step 7: upsertHeliumRewards rejects
UpsertFails ==
    /\ rpc = "upsert"
    /\ Return(Failure(deviceKeys[devIdx], "upsert failed", scrapedData, pocData, parsedData, Null),
              Append(stepLog, Step("upsert", FALSE)))
    /\ UNCHANGED <<deviceKeys, devIdx, scrapedData, pocData, parsedData, upsertResult,
                   delays, batchReturn>>
    /\ UNCHANGED notRun

\* await new Promise(resolve => setTimeout(resolve, 10000)), then i++
BatchWaits ==
    /\ rpc = "wait"
    /\ delays' = Append(delays, devIdx)
    /\ devIdx' = devIdx + 1
    /\ rpc' = "loop"
    /\ UNCHANGED <<deviceKeys, scrapedData, pocData, parsedData, upsertResult, stepLog,
                   batchResults, stepLogs, batchReturn>>
    /\ UNCHANGED notRun

\* the last device is done -- mutant: the batch waits after it as well
BatchWaitsAfterLast ==
    /\ rpc = "next"
    /\ delays' = Append(delays, devIdx)
    /\ devIdx' = devIdx + 1
    /\ rpc' = "loop"
    /\ UNCHANGED <<deviceKeys, scrapedData, pocData, parsedData, upsertResult, stepLog,
                   batchResults, stepLogs, batchReturn>>
    /\ UNCHANGED notRun

\* the last device is done: i++ ends the loop
BatchNoWait ==
    /\ rpc = "next"
    /\ devIdx' = devIdx + 1
    /\ rpc' = "loop"
    /\ UNCHANGED <<deviceKeys, scrapedData, pocData, parsedData, upsertResult, stepLog,
                   batchResults, stepLogs, delays, batchReturn>>
    /\ UNCHANGED notRun

\* the loop has ended: runBatchRewardsScrape returns
BatchReturns ==
    /\ rpc = "loop"
    /\ devIdx > Len(deviceKeys)
    /\ batchReturn' = Some(BatchReturn(deviceKeys, batchResults))
    /\ rpc' = "returned"
    /\ UNCHANGED <<deviceKeys, devIdx, scrapedData, pocData, parsedData, upsertResult, stepLog,
                   batchResults, stepLogs, delays>>
    /\ UNCHANGED notRun

RunNext ==
    \/ BatchCallsRun
    \/ ConnectionOk
    \/ ConnectionFails
    \/ ScrapeDcOk
    \/ ScrapeDcFails
    \/ ScrapePocOk
    \/ ScrapePocFails
    \/ UpsertOk
    \/ UpsertFails
    \/ BatchWaits
    \/ BatchNoWait
    \/ BatchReturns


\* the steps of runRewardsScrape in their order
StepOrder == <<"connection", "dc", "poc", "parse", "validate", "enrich", "upsert">>

StepDone(log, name) == \E i \in 1..Len(log) : log[i].step = name /\ log[i].ok

\* the log and the partial values of one call of runRewardsScrape agree with
\* the order of the steps
InOrder(log) ==
    /\ Len(log) <= Len(StepOrder)
    /\ \A i \in 1..Len(log) : log[i].step = StepOrder[i]
    /\ \A i \in 1..(Len(log) - 1) : log[i].ok

\* C25: the steps of runRewardsScrape run in the fixed order, each only
\* after all earlier ones succeeded; the upsert is not called after a failed
\* connection test or with data that validateRewardData rejects; and a call
\* in which a step failed has returned success false with exactly the values
\* of the completed steps as partial results.
C25_StepsInOrderFailureReturned ==
    /\ InOrder(stepLog)
    /\ Len(batchResults) = Len(stepLogs)
    /\ (\E i \in 1..Len(stepLog) : stepLog[i].step = "upsert") =>
          /\ StepDone(stepLog, "connection")
          /\ ValidationErrors(parsedData.val) = <<>>
    /\ \A d \in 1..Len(stepLogs) :
          LET log == stepLogs[d]
              r   == batchResults[d]
          IN  /\ InOrder(log)
              /\ ~log[Len(log)].ok =>
                    /\ ~r.success
                    /\ r.deviceKey = deviceKeys[d]
                    /\ r.partialResults.scrapedData.isNull = ~StepDone(log, "dc")
                    /\ r.partialResults.pocData.isNull = ~StepDone(log, "poc")
                    /\ r.partialResults.parsedData.isNull = ~StepDone(log, "parse")
                    /\ r.partialResults.upsertResult.isNull

\* a call whose validation failed, and a later one whose upsert failed
C25_Witness ==
    /\ Len(stepLogs) = 2
    /\ stepLogs[1][Len(stepLogs[1])] = Step("validate", FALSE)
    /\ ~batchResults[1].partialResults.parsedData.isNull
    /\ stepLogs[2][Len(stepLogs[2])] = Step("upsert", FALSE)
    /\ ~batchResults[2].success

MaxRuns == 2

\* the most daily entries of a call
MaxDays == 2

UpsertDevice == "deviceA"

\* the dates of the daily entries
UpsertDates == {1, 2}

\* a daily entry of parseRewardsData
Day(date, dc, base, boosted) ==
    [date |-> date, rewardType |-> "mobile_verified", totalRewardsDC |-> dc,
     totalBasePoc |-> base, totalBoostedPoc |-> boosted, totalPoc |-> base + boosted]

DayPool == {Day(d, v[1], v[2], v[3]) : d \in UpsertDates, v \in {<<5, 0, 0>>, <<7, 3, 1>>}}

\* dailyRewards: at most one entry per date
DailyRewardsPool ==
    {days \in UNION {[1..n -> DayPool] : n \in 0..MaxDays} :
        \A i, j \in 1..Len(days) : i < j => days[i].date < days[j].date}

\* .from('helium_rewards_daily').select('id, reward_amount_dc')
\*   .eq('device_id', ..).eq('transaction_date', ..).eq('reward_type', ..).single():
\* the row's id and reward_amount_dc, or no data (PGRST116) unless exactly
\* one row matches
SelectExisting(table, deviceId, day) ==
    LET ids == {i \in 1..Len(table) :
                   /\ table[i].device_id = deviceId
                   /\ table[i].transaction_date = day.date
                   /\ table[i].reward_type = day.rewardType}
    IN  IF Cardinality(ids) = 1
        THEN LET id == CHOOSE i \in ids : TRUE
             IN  Some([id |-> id, reward_amount_dc |-> table[id].reward_amount_dc])
        ELSE Null

\* rewardData
RewardData(deviceId, day) ==
    [transaction_date   |-> day.date,
     device_id          |-> deviceId,
     reward_amount_dc   |-> day.totalRewardsDC,
     base_poc_reward    |-> day.totalBasePoc,
     boosted_poc_reward |-> day.totalBoostedPoc,
     total_poc_reward   |-> day.totalPoc,
     reward_type        |-> day.rewardType]

\* existingReward.reward_amount_dc !== dayData.totalRewardsDC
DcChanged(existingReward, day) == existingReward.reward_amount_dc # day.totalRewardsDC

\* (existingReward.base_poc_reward || 0) !== dayData.totalBasePoc || ...: the
\* PoC columns are not among the selected ones, so each reads as undefined
PocChanged(existingReward, day) ==
    \/ 0 # day.totalBasePoc
    \/ 0 # day.totalBoostedPoc
    \/ 0 # day.totalPoc

\* the audit log entry of a call that ran to its end
LogEntry(run, inserted, updated, errors, total) ==
    [run |-> run,
     status |-> IF errors > 0 THEN "partial" ELSE "success",
     records_processed |-> inserted + updated,
     insertedCount |-> inserted, updatedCount |-> updated, errorCount |-> errors,
     totalDailyEntries |-> total]

\* the audit log entry of the catch block
ErrorLogEntry(run, inserted, updated, errors) ==
    [run |-> run,
     status |-> "error",
     records_processed |-> inserted + updated,
     insertedCount |-> inserted, updatedCount |-> updated, errorCount |-> errors + 1,
     totalDailyEntries |-> 0]

CurrentRun == Len(upsertInputs)

DailyRewardsNow == upsertInputs[CurrentRun]

DbInit ==
    /\ devicesTable = {} /\ rewardsTable = <<>> /\ scrapeLog = <<>>
    /\ upsertInputs = <<>> /\ tableBefore = <<>> /\ dayIdx = 0
    /\ insertedCount = 0 /\ updatedCount = 0 /\ errorCount = 0
    /\ upsertReturns = <<>>
    /\ upc = "ready"
    /\ FrameIdle /\ ListIdle /\ ScanIdle /\ ParseIdle /\ TopIdle /\ WireIdle /\ KeyIdle /\ DevIdle /\ RunIdle /\ TrkIdle

\* the catch block: the error audit log is attempted and the error rethrown
Abort ==
    /\ scrapeLog' = Append(scrapeLog, ErrorLogEntry(CurrentRun, insertedCount, updatedCount, errorCount))
    /\ upsertReturns' = Append(upsertReturns, [threw |-> TRUE])
    /\ upc' = "ready"

\* upsertHeliumRewards(parsedData) is called: the counters are zeroed and
\* the device is looked up
UpsertCalled ==
    /\ upc = "ready"
    /\ Len(upsertInputs) < MaxRuns
    /\ \E days \in DailyRewardsPool : upsertInputs' = Append(upsertInputs, days)
    /\ tableBefore' = rewardsTable
    /\ insertedCount' = 0 /\ updatedCount' = 0 /\ errorCount' = 0
    /\ dayIdx' = 1
    /\ upc' = "device"
    /\ UNCHANGED <<devicesTable, rewardsTable, scrapeLog, upsertReturns>>
    /\ UNCHANGED notDb

\* step 1: the device row is found, or is created
DeviceEnsured ==
    /\ upc = "device"
    /\ devicesTable' = devicesTable \cup {UpsertDevice}
    /\ upc' = "days"
    /\ UNCHANGED <<rewardsTable, scrapeLog, upsertInputs, tableBefore, dayIdx,
                   insertedCount, updatedCount, errorCount, upsertReturns>>
    /\ UNCHANGED notDb

\* step 1: the select of the device fails, or the insert of a new one does
DeviceFails ==
    /\ upc = "device"
    /\ Abort
    /\ UNCHANGED <<devicesTable, rewardsTable, upsertInputs, tableBefore, dayIdx,
                   insertedCount, updatedCount, errorCount>>
    /\ UNCHANGED notDb

\* step 2, one turn of the loop -- mutant: a failing day ends the loop
DayBreaksOnError(outcome) ==
    IF outcome = "ok" THEN dayIdx + 1 ELSE Len(DailyRewardsNow) + 1

\* step 2, one turn of the loop: the next place in dailyRewards
DayAdvance(outcome) == dayIdx + 1

\* step 2, one turn of the loop: select, then update, insert or neither
UpsertDay ==
    /\ upc = "days"
    /\ dayIdx <= Len(DailyRewardsNow)
    /\ \E outcome \in {"ok", "selectError", "writeError"} :
          LET dayData        == DailyRewardsNow[dayIdx]
              existingReward == SelectExisting(rewardsTable, UpsertDevice, dayData)
              rewardData     == RewardData(UpsertDevice, dayData)
              writes         == IF existingReward.isNull THEN TRUE
                                ELSE \/ DcChanged(existingReward.val, dayData)
                                     \/ PocChanged(existingReward.val, dayData)
          IN  /\ (outcome = "writeError") => writes
              /\ dayIdx' = DayAdvance(outcome)
              /\ IF outcome = "selectError" \/ outcome = "writeError"
                 THEN /\ errorCount' = errorCount + 1
                      /\ UNCHANGED <<rewardsTable, insertedCount, updatedCount>>
                 ELSE IF existingReward.isNull
                      THEN /\ rewardsTable' = Append(rewardsTable, rewardData)
                           /\ insertedCount' = insertedCount + 1
                           /\ UNCHANGED <<updatedCount, errorCount>>
                      ELSE IF writes
                           THEN /\ rewardsTable' = [rewardsTable EXCEPT ![existingReward.val.id] = rewardData]
                                /\ updatedCount' = updatedCount + 1
                                /\ UNCHANGED <<insertedCount, errorCount>>
                           ELSE UNCHANGED <<rewardsTable, insertedCount, updatedCount, errorCount>>
    /\ UNCHANGED <<devicesTable, scrapeLog, upsertInputs, tableBefore, upsertReturns, upc>>
    /\ UNCHANGED notDb

\* steps 3 and 4: the tracking row is touched, the audit log entry is
\* inserted (the insert may fail), and the call returns
UpsertReturns ==
    /\ upc = "days"
    /\ dayIdx > Len(DailyRewardsNow)
    /\ scrapeLog' = Append(scrapeLog, LogEntry(CurrentRun, insertedCount, updatedCount,
                                               errorCount, Len(DailyRewardsNow)))
    /\ \E logError \in BOOLEAN :
          upsertReturns' = Append(upsertReturns,
              [threw |-> FALSE, success |-> TRUE,
               insertedCount |-> insertedCount, updatedCount |-> updatedCount,
               errorCount |-> errorCount, totalProcessed |-> insertedCount + updatedCount,
               auditLogCreated |-> ~logError])
    /\ upc' = "ready"
    /\ UNCHANGED <<devicesTable, rewardsTable, upsertInputs, tableBefore, dayIdx,
                   insertedCount, updatedCount, errorCount>>
    /\ UNCHANGED notDb

DbNext ==
    \/ UpsertCalled
    \/ DeviceEnsured
    \/ DeviceFails
    \/ UpsertDay
    \/ UpsertReturns


\* no two rows of helium_rewards_daily for one device, date and reward type
OneRowPerDay ==
    \A i, j \in 1..Len(rewardsTable) :
        (/\ rewardsTable[i].device_id = rewardsTable[j].device_id
         /\ rewardsTable[i].transaction_date = rewardsTable[j].transaction_date
         /\ rewardsTable[i].reward_type = rewardsTable[j].reward_type) => i = j

\* the second of two calls with the same data has returned, and neither
\* call met an error
SameDataTwice ==
    /\ Len(upsertReturns) = 2 /\ upc = "ready"
    /\ upsertInputs[1] = upsertInputs[2]
    /\ \A r \in 1..2 : ~upsertReturns[r].threw /\ upsertReturns[r].errorCount = 0

\* C27: a second call with the same parsed data leaves the stored rows as
\* they were and reports insertedCount = 0 and updatedCount = 0; and no two
\* rows ever exist for one device, date and reward type.
C27_SecondRunChangesNothing ==
    /\ OneRowPerDay
    /\ SameDataTwice =>
          /\ rewardsTable = tableBefore
          /\ upsertReturns[2].insertedCount = 0
          /\ upsertReturns[2].updatedCount = 0

\* the audit log inserts attempted by call r
LogsOf(r) == {i \in 1..Len(scrapeLog) : scrapeLog[i].run = r}

\* C28: every call that has ended attempted exactly one audit log insert:
\* 'error' if it threw, else 'partial' if a day failed and 'success' if
\* none did; a call that returned went through all its days, and
\* records_processed = insertedCount + updatedCount, which with errorCount
\* does not exceed the number of daily entries.
C28_OneAuditLogPerCall ==
    /\ upc \in {"device", "days"} => LogsOf(CurrentRun) = {}
    /\ \A r \in 1..Len(upsertReturns) :
          /\ Cardinality(LogsOf(r)) = 1
          /\ LET entry   == scrapeLog[CHOOSE i \in LogsOf(r) : TRUE]
                 ret     == upsertReturns[r]
                 days    == upsertInputs[r]
                 missing == {d \in 1..Len(days) :
                                \A i \in 1..Len(rewardsTable) :
                                    rewardsTable[i].transaction_date # days[d].date}
             IN  IF ret.threw THEN entry.status = "error"
                 ELSE /\ entry.status = (IF ret.errorCount > 0 THEN "partial" ELSE "success")
                      /\ entry.records_processed = ret.insertedCount + ret.updatedCount
                      /\ ret.insertedCount + ret.updatedCount + ret.errorCount <= Len(days)
                      /\ Cardinality(missing) <= ret.errorCount

\* a call in which the first day failed and the second was inserted
C28_Witness ==
    /\ Len(upsertReturns) = 1 /\ ~upsertReturns[1].threw
    /\ Len(upsertInputs[1]) = MaxDays
    /\ upsertReturns[1].errorCount = 1 /\ upsertReturns[1].insertedCount = MaxDays - 1
    /\ rewardsTable # <<>> /\ rewardsTable[1].transaction_date = upsertInputs[1][MaxDays].date
    /\ scrapeLog[1].status = "partial"


(***************************************************************************)
(* The tracked devices: addDeviceToTracking, removeDeviceFromTracking and  *)
(* getTrackedDevices (upsertHeliumRewards.js) and the POST and DELETE      *)
(* handlers of api/manage-devices.js, on the tables tracked_devices        *)
(* (unique device_key, referencing devices) and devices.  A handler runs   *)
(* from request to answer without another request in between.              *)
(***************************************************************************)

\* the number of well-formed device keys
MaxTracked == 2

\* a device key: which key it is, its length, and whether all its
\* characters are of the base58 alphabet
TrackKey(id, length, base58) == [id |-> id, length |-> length, base58 |-> base58]

\* no key, a key too short, and well-formed keys
MissingKey == TrackKey(0, 0, TRUE)

TrackKeys == {TrackKey(0, 40, TRUE)} \cup {TrackKey(i, 120, TRUE) : i \in 1..MaxTracked}

\* isValidDeviceKey(deviceKey)
IsValidDeviceKey(deviceKey) ==
    IF deviceKey.length = 0 THEN FALSE
    ELSE deviceKey.length > 50 /\ deviceKey.base58

\* .from('tracked_devices').upsert({ device_key, notes, is_active: true },
\*   { onConflict: 'device_key' })
UpsertTracking(table, deviceKey) == [table EXCEPT ![deviceKey] = "active"]

\* .update({ is_active: false }).eq('device_key', deviceKey) -- mutant: the
\* row is deleted
DeleteRow(table, deviceKey) == [table EXCEPT ![deviceKey] = "absent"]

\* .update({ is_active: false }).eq('device_key', deviceKey)
Deactivate(table, deviceKey) ==
    [table EXCEPT ![deviceKey] = IF @ = "absent" THEN "absent" ELSE "inactive"]

\* .select('*, devices!inner(..)').eq('is_active', true): the active rows
\* whose device key has a row in devices
ActiveRows(table, registered) == {k \in DOMAIN table : table[k] = "active" /\ k \in registered}

Answer(status, rows) == [status |-> status, rows |-> rows]

TrkInit ==
    /\ trackedDevices = [k \in TrackKeys |-> "absent"]
    /\ deviceRows = {}
    /\ trackedBefore = [k \in TrackKeys |-> "absent"]
    /\ lastOp = [op |-> "none", key |-> MissingKey]
    /\ lastAnswer = Answer("none", {})
    /\ FrameIdle /\ ListIdle /\ ScanIdle /\ ParseIdle /\ TopIdle /\ WireIdle /\ KeyIdle /\ DevIdle /\ RunIdle /\ DbIdle

\* the two upserts of addDeviceToTracking and of handleAddDevice
EnsureAndTrack(deviceKey, outcome) ==
    /\ deviceRows' = IF outcome = "deviceError" THEN deviceRows ELSE deviceRows \cup {deviceKey}
    /\ trackedDevices' = IF outcome = "ok" THEN UpsertTracking(trackedDevices, deviceKey)
                         ELSE trackedDevices

\* addDeviceToTracking(deviceKey, deviceName, notes)
AddDeviceToTracking(deviceKey) ==
    /\ \E outcome \in {"ok", "deviceError", "trackingError"} :
          /\ EnsureAndTrack(deviceKey, outcome)
          /\ lastAnswer' = Answer(IF outcome = "ok" THEN "returned" ELSE "threw", {})
    /\ trackedBefore' = trackedDevices
    /\ lastOp' = [op |-> "add", key |-> deviceKey]
    /\ UNCHANGED notTrk

\* removeDeviceFromTracking(deviceKey)
RemoveDeviceFromTracking(deviceKey) ==
    /\ \E outcome \in {"ok", "error"} :
          /\ trackedDevices' = IF outcome = "ok" THEN Deactivate(trackedDevices, deviceKey)
                               ELSE trackedDevices
          /\ lastAnswer' = Answer(IF outcome = "ok" THEN "returned" ELSE "threw", {})
    /\ trackedBefore' = trackedDevices
    /\ lastOp' = [op |-> "remove", key |-> deviceKey]
    /\ UNCHANGED deviceRows
    /\ UNCHANGED notTrk

\* getTrackedDevices()
GetTrackedDevices ==
    /\ \E outcome \in {"ok", "error"} :
          lastAnswer' = IF outcome = "ok" THEN Answer("returned", ActiveRows(trackedDevices, deviceRows))
                        ELSE Answer("threw", {})
    /\ trackedBefore' = trackedDevices
    /\ lastOp' = [op |-> "list", key |-> MissingKey]
    /\ UNCHANGED <<trackedDevices, deviceRows>>
    /\ UNCHANGED notTrk

\* POST /api/manage-devices: handleAddDevice
HandleAddDevice(deviceKey) ==
    /\ IF ~IsValidDeviceKey(deviceKey)
       THEN /\ lastAnswer' = Answer("400", {})
            /\ UNCHANGED <<trackedDevices, deviceRows>>
       ELSE \E outcome \in {"ok", "deviceError", "trackingError"} :
               /\ EnsureAndTrack(deviceKey, outcome)
               /\ lastAnswer' = Answer(IF outcome = "ok" THEN "200" ELSE "500", {})
    /\ trackedBefore' = trackedDevices
    /\ lastOp' = [op |-> "POST", key |-> deviceKey]
    /\ UNCHANGED notTrk

\* DELETE /api/manage-devices: handleRemoveDevice
HandleRemoveDevice(deviceKey) ==
    /\ IF ~IsValidDeviceKey(deviceKey)
       THEN /\ lastAnswer' = Answer("400", {})
            /\ UNCHANGED trackedDevices
       ELSE \E outcome \in {"ok", "checkError", "updateError"} :
               IF outcome = "checkError"
               THEN /\ lastAnswer' = Answer("500", {})
                    /\ UNCHANGED trackedDevices
               ELSE IF trackedDevices[deviceKey] = "absent"
                    THEN /\ lastAnswer' = Answer("404", {})
                         /\ UNCHANGED trackedDevices
                    ELSE IF trackedDevices[deviceKey] = "inactive"
                         THEN /\ lastAnswer' = Answer("400", {})
                              /\ UNCHANGED trackedDevices
                         ELSE IF outcome = "updateError"
                              THEN /\ lastAnswer' = Answer("500", {})
                                   /\ UNCHANGED trackedDevices
                              ELSE /\ lastAnswer' = Answer("200", {})
                                   /\ trackedDevices' = Deactivate(trackedDevices, deviceKey)
    /\ trackedBefore' = trackedDevices
    /\ lastOp' = [op |-> "DELETE", key |-> deviceKey]
    /\ UNCHANGED deviceRows
    /\ UNCHANGED notTrk

TrkNext ==
    \/ \E k \in TrackKeys : AddDeviceToTracking(k)
    \/ \E k \in TrackKeys : RemoveDeviceFromTracking(k)
    \/ GetTrackedDevices
    \/ \E k \in TrackKeys \cup {MissingKey} : HandleAddDevice(k)
    \/ \E k \in TrackKeys \cup {MissingKey} : HandleRemoveDevice(k)

\* the last operation succeeded
Succeeded == lastAnswer.status \in {"returned", "200"}

\* C29: getTrackedDevices returns the devices whose tracking row is active;
\* a successful add makes the device tracked, whatever its row was; a
\* successful remove of a tracked device leaves its row, inactive, and no
\* operation deletes a row; DELETE answers "404" for a device without a row
\* and "400" for one with an inactive row, and changes nothing then.
C29_TrackedLifecycle ==
    /\ (lastOp.op = "list" /\ Succeeded) =>
          lastAnswer.rows = {k \in TrackKeys : trackedDevices[k] = "active"}
    /\ (lastOp.op \in {"add", "POST"} /\ Succeeded) =>
          /\ trackedDevices[lastOp.key] = "active"
          /\ lastOp.key \in ActiveRows(trackedDevices, deviceRows)
    /\ (lastOp.op \in {"remove", "DELETE"} /\ Succeeded /\ trackedBefore[lastOp.key] # "absent") =>
          trackedDevices[lastOp.key] = "inactive"
    /\ \A k \in TrackKeys : trackedBefore[k] # "absent" => trackedDevices[k] # "absent"
    /\ (lastOp.op = "DELETE" /\ IsValidDeviceKey(lastOp.key)) =>
          /\ trackedBefore[lastOp.key] = "absent" =>
                lastAnswer.status \in {"404", "500"} /\ trackedDevices = trackedBefore
          /\ trackedBefore[lastOp.key] = "inactive" =>
                lastAnswer.status \in {"400", "500"} /\ trackedDevices = trackedBefore
          /\ lastAnswer.status = "404" => trackedBefore[lastOp.key] = "absent"
          /\ lastAnswer.status = "400" => trackedBefore[lastOp.key] = "inactive"

\* DELETE of a device that was added and then removed is answered "400"
C29_Witness ==
    /\ lastOp.op = "DELETE" /\ IsValidDeviceKey(lastOp.key)
    /\ lastAnswer.status = "400"
    /\ trackedDevices[lastOp.key] = "inactive"
    /\ \E k \in TrackKeys : k # lastOp.key /\ trackedDevices[k] = "active"

\* C30: in the fleet scan rewardsCounted = deviceKeysExtracted <= decodedOk <=
\* framesScanned in every state and no counter ever decreases; every listed
\* object's timestamp is at or after the cutoff of the largest window, so
\* every counted event is in the totals of the largest window; and a device
\* has an entry in a window's totals only if a counted event of that device
\* has a timestamp at or after that window's cutoff.
C30_FleetCountersConsistent ==
    /\ [](mode = "fleet" =>
            /\ counters.rewardsCounted = counters.deviceKeysExtracted
            /\ counters.deviceKeysExtracted <= counters.decodedOk
            /\ counters.decodedOk <= counters.framesScanned
            /\ counters.framesScanned = framesSeen
            /\ counters.rewardsCounted = Len(counted)
            /\ \A i \in 1..Len(scanFiles) : scanFiles[i] >= Cutoff(WINDOWS_DAYS[Len(WINDOWS_DAYS)])
            /\ \A i \in 1..Len(counted) :
                  /\ counted[i].ts >= Cutoff(WINDOWS_DAYS[Len(WINDOWS_DAYS)])
                  /\ \E j \in 1..Len(totalsByWindow[Len(WINDOWS_DAYS)]) :
                        totalsByWindow[Len(WINDOWS_DAYS)][j].device = CountedDevice(counted[i])
            /\ \A dev \in FleetDevices :
                  TotalOf(totalsByWindow[Len(WINDOWS_DAYS)], dev)
                      = SumCounted(counted, dev, WINDOWS_DAYS[Len(WINDOWS_DAYS)] + 1)
            /\ \A w \in 1..Len(WINDOWS_DAYS) :
                  \A i \in 1..Len(totalsByWindow[w]) :
                      \E j \in 1..Len(counted) :
                          /\ CountedDevice(counted[j]) = totalsByWindow[w][i].device
                          /\ counted[j].ts >= Cutoff(WINDOWS_DAYS[w]))
    /\ [][mode = "fleet" =>
            /\ counters'.framesScanned >= counters.framesScanned
            /\ counters'.decodedOk >= counters.decodedOk
            /\ counters'.rewardsCounted >= counters.rewardsCounted
            /\ counters'.deviceKeysExtracted >= counters.deviceKeysExtracted]_vars

\* a fleet scan that met a frame it could not decode, a decoded frame without
\* a device key and a counted frame of an object older than the 7-day cutoff:
\* the counters differ pairwise and the device is in the 30-day totals only
C30_Witness ==
    /\ mode = "fleet"
    /\ counters.framesScanned = 3 /\ counters.decodedOk = 2
    /\ counters.rewardsCounted = 1 /\ counters.deviceKeysExtracted = 1
    /\ TotalOf(totalsByWindow[3], "target") > 0
    /\ totalsByWindow[2] = <<>> /\ totalsByWindow[1] = <<>>

FrameNext == Chunk \/ Yield \/ AwaitMore \/ EndOfStream

SpecFrame == FrameInit /\ [][FrameNext]_vars

SpecList == ListInit /\ [][ListNext]_vars

SpecScan == ScanInit /\ [][ScanNext]_vars

SpecParse == ParseInit /\ [][ParseNext]_vars

SpecTop == TopInit /\ [][TopNext]_vars

SpecWire == WireInit /\ [][WireNext]_vars

SpecKey == KeyInit /\ [][KeyNext]_vars

SpecDev == DevInit /\ [][DevNext]_vars

SpecRun == RunInit /\ [][RunNext]_vars

SpecDb == DbInit /\ [][DbNext]_vars

SpecTrk == TrkInit /\ [][TrkNext]_vars

====
